---- MODULE Spec2Model ----
(***************************************************************************)
(* Model of the leak-test application: the helium analyzer reader          *)
(* (helium.py), the report computations and the report dialog              *)
(* (create_pdf.py, create_report.py), the start-up power-on query and the  *)
(* countdown of the start page (HeliumLeakTestApp.py), the device scan     *)
(* (check_serial.py), the settings window with its Save all button and its *)
(* relay toggle buttons (Settings.py) and the comparison windows           *)
(* (compare_graph.py).                                                     *)
(***************************************************************************)
EXTENDS Integers, Sequences, FiniteSets, TLC

VARIABLES
    \* ---- helium.py ----
    h_pc,        \* position of read_data_from_helium: "start", "reading", "done"
    h_port,      \* helium_analyzer_config.port ("" when not configured)
    h_opened,    \* TRUE once serial.Serial(port, baud_rate) has been constructed
    h_depth,     \* number of active read_from_serial frames
    h_record,    \* the record the analyzer sends (choice of field variants)
    h_data,      \* the line read by ser.readline().decode().strip()
    h_parsed,    \* the value parse_data returned for h_data
    h_event,     \* what ended the read: "none", "data", "serial_error", "open_error", "no_port"
    h_ret,       \* the value returned to the caller of read_data_from_helium
    h_shown,     \* the message boxes shown
    \* ---- create_report.py, create_pdf.py ----
    report_data, \* the Report record create() saved and handed to create_pdf
    p_saved,     \* the Report record as it was when create() saved it
    p_ncalls,    \* calls of convert_he_to_air made for this report
    p_prev,      \* the call of convert_he_to_air before the last one
    p_last,      \* the last call of convert_he_to_air: arguments, what it read, result
    p_direction, \* the direction code last looked up
    p_elem,      \* what get_elem_direction_value returned for it
    \* ---- HeliumLeakTestApp.py: get_power_on_time ----
    leakDetector_available,  \* the module-level flag read from the repository
    pw_pc,       \* "start" until get_power_on_time has run, then "done"
    pw_env,      \* what the serial session did: where it failed, what it replied
    pw_result,   \* how get_power_on_time ended: value returned or exception raised
    \* ---- check_serial.py: get_serial_devices ----
    sc_pc,       \* "idle", "relay" (first loop), "classify" (second loop), "done"
    sc_i,        \* index of the port the current loop is at
    ports,       \* serial.tools.list_ports.comports() of the running scan
    relay_switch,\* the local relay_switch: FALSE for None, TRUE for a RelaySwitch
    turned_on,   \* turn_on_devices() has been invoked in the running scan
    waited,      \* time.sleep(10) has elapsed in the running scan
    devcfg,      \* the device configuration objects of the repository
    db_devcfg,   \* the device configuration as last written by update_device_info
    devices,     \* the list get_serial_devices returns
    stop_call,   \* the last call of stop_gas_flow in the running scan
    \* ---- Settings.py ----
    st_pc,       \* "closed", "open" (window shown), "entered", "saved", "rejected"
    st_tb,       \* the text boxes tb_port.. of each device
    st_cfg,      \* the configuration objects leakware_config, mass_flow_config, ..
    st_db,       \* the configuration as last written by update_device_info
    st_open,     \* what happened in the try block of each save function
    st_error,    \* the arguments of the error page shown by save_all_settings
    st_before,   \* st_cfg and st_db as they were when Save all was pressed
    st_serial,   \* the devices whose save function has constructed serial.Serial
    \* ---- HeliumLeakTestApp.py: start page ----
    tm_pc,       \* "off", "start" (update_timer not yet called), "scheduled", "expired"
    remaining_time,  \* the global remaining_time, in seconds
    timer_label, \* the remaining time shown by timer_label (None before the first)
    stop_count,  \* how often stop_timer has run
    timer_frame, \* timer_frame is placed
    message_frame,   \* message_frame is placed
    quick_test,  \* state of the Quick Test button
    serious_of_measurement,  \* state of the Series of Measurements button
    mode,        \* the frame with the PEM and PROFIL buttons is placed
    sessions,    \* calls of main_application
    \* ---- create_report.py: create(), create_pdf.py: create_pdf ----
    rp_pc,       \* "off", "dialog", "saved", "converted", "pdf", "destroyed", "raised"
    rp_entry,    \* what the dialog held when Create Report was pressed
    rp_log,      \* what the running create() has done so far, in order
    n_reports,   \* how many Report records save_report_data has stored
    rp_report,   \* the Report record saved last, which create_pdf is given
    measurements,    \* the Measurement objects of the repository for the session
    measurements_before, \* their values before the first report was requested
    specimens,   \* the y values of the stored specimens
    measurements_list,   \* the local measurements_list of a running create_pdf
    rp_pdf,      \* the values of the last generated PDF
    \* ---- Settings.py: the relay toggle buttons ----
    rl_pc,       \* "closed" until settings() has built the window, then "open"
    relay_connected, \* first value returned by relay_switch.connect
    relay_states,    \* second value returned by relay_switch.connect
    rl_local,    \* the locals inficon_relay_switch.. of settings()
    rl_global,   \* the module globals inficon_relay_switch.. the toggles declare
    rl_image,    \* the image of each toggle button: "on", "off", "none" (no button)
    rl_relay,    \* the state of each relay, as reported and then as commanded
    rl_clicks,   \* the clicks on the toggle buttons so far and how each ended
    \* ---- compare_graph.py ----
    cg_db,       \* repository.get_all_specimens: the specimens of each session
    cg_element_listx,    \* the module global element_listx of compare_graph.py
    cg_element_listy,    \* the module global element_listy of compare_graph.py
    checkboxes,  \* the module global checkboxes: references to BooleanVar objects
    cg_windows   \* the comparison windows: session, BooleanVar values, labels, plot

helium_vars == <<h_pc, h_port, h_opened, h_depth, h_record, h_data, h_parsed, h_event, h_ret,
                 h_shown>>

pdf_vars == <<report_data, p_saved, p_ncalls, p_prev, p_last, p_direction, p_elem>>

power_vars == <<leakDetector_available, pw_pc, pw_env, pw_result>>

scan_vars == <<sc_pc, sc_i, ports, relay_switch, turned_on, waited, devcfg, db_devcfg, devices,
              stop_call>>

settings_vars == <<st_pc, st_tb, st_cfg, st_db, st_open, st_error, st_before, st_serial>>

timer_vars == <<tm_pc, remaining_time, timer_label, stop_count, timer_frame, message_frame,
               quick_test, serious_of_measurement, mode, sessions>>

report_vars == <<rp_pc, rp_entry, rp_log, n_reports, rp_report, measurements,
                measurements_before, specimens, measurements_list, rp_pdf>>

relay_vars == <<rl_pc, relay_connected, relay_states, rl_local, rl_global, rl_image, rl_relay,
               rl_clicks>>

compare_vars == <<cg_db, cg_element_listx, cg_element_listy, checkboxes, cg_windows>>

not_helium_vars == <<pdf_vars, power_vars, scan_vars, settings_vars, timer_vars,
    report_vars, relay_vars, compare_vars>>
not_pdf_vars == <<helium_vars, power_vars, scan_vars, settings_vars, timer_vars,
    report_vars, relay_vars, compare_vars>>
not_power_vars == <<helium_vars, pdf_vars, scan_vars, settings_vars, timer_vars,
    report_vars, relay_vars, compare_vars>>
not_scan_vars == <<helium_vars, pdf_vars, power_vars, settings_vars, timer_vars,
    report_vars, relay_vars, compare_vars>>
not_settings_vars == <<helium_vars, pdf_vars, power_vars, scan_vars, timer_vars,
    report_vars, relay_vars, compare_vars>>
not_timer_vars == <<helium_vars, pdf_vars, power_vars, scan_vars, settings_vars,
    report_vars, relay_vars, compare_vars>>
not_report_vars == <<helium_vars, pdf_vars, power_vars, scan_vars, settings_vars,
    timer_vars, relay_vars, compare_vars>>
not_relay_vars == <<helium_vars, pdf_vars, power_vars, scan_vars, settings_vars,
    timer_vars, report_vars, compare_vars>>
not_compare_vars == <<helium_vars, pdf_vars, power_vars, scan_vars, settings_vars,
    timer_vars, report_vars, relay_vars>>

vars == <<helium_vars, pdf_vars, power_vars, scan_vars, settings_vars,
         timer_vars, report_vars, relay_vars, compare_vars>>

(***************************************************************************)
(* Python values                                                           *)
(***************************************************************************)
None == [t |-> "None", s |-> <<>>, n |-> 0]
PyStr(x) == [t |-> "str", s |-> x, n |-> 0]
PyInt(k) == [t |-> "int", s |-> <<>>, n |-> k]

(***************************************************************************)
(* Bounds                                                                  *)
(***************************************************************************)
MaxPolls == 3     \* polls of ser.in_waiting that find no data
MaxCalls == 2     \* calls of convert_he_to_air followed for one report
MaxPorts == 2     \* serial ports enumerated in one scan

(***************************************************************************)
(* Characters                                                              *)
(***************************************************************************)
Digit == {"0", "1", "2", "3", "4", "5", "6", "7", "8", "9"}
Space == {" ", "\t", "\r", "\n"}

(***************************************************************************)
(* The records the analyzer may send: each field in several variants,      *)
(* well-formed (wf) or not.                                                *)
(***************************************************************************)
HeVariants == <<
    [txt |-> <<"H","e"," ","2","3",".","5","%">>, wf |-> TRUE,  num |-> <<"2","3",".","5">>],
    [txt |-> <<"H","e"," "," ","0",".","0","5"," ","%">>, wf |-> TRUE, num |-> <<"0",".","0","5">>],
    [txt |-> <<"H","e"," ","2","3","%">>, wf |-> FALSE, num |-> <<>>],
    [txt |-> <<>>, wf |-> FALSE, num |-> <<>>] >>

O2Variants == <<
    [txt |-> <<"O","2"," ","2","1",".","2","%">>, wf |-> TRUE],
    [txt |-> <<"O","2","\t","9",".","7","5","%">>, wf |-> TRUE],
    [txt |-> <<"O","2"," ","2","1","%">>, wf |-> FALSE],
    [txt |-> <<>>, wf |-> FALSE] >>

TiVariants == <<
    [txt |-> <<"T","i"," ","2","5",".","0","~","C">>, wf |-> TRUE],
    [txt |-> <<"T","i"," ","2","5","~","C">>, wf |-> FALSE],
    [txt |-> <<>>, wf |-> FALSE] >>

HPaVariants == <<
    [txt |-> <<"1","0","1","2",".","3"," ","h","P","a">>, wf |-> TRUE],
    [txt |-> <<"1","0","1","2"," ","h","P","a">>, wf |-> FALSE],
    [txt |-> <<>>, wf |-> FALSE] >>

DateVariants == <<
    [txt |-> <<"2","0","2","4","/","0","5","/","1","4"," ","1","5",":","3","0",":","0","0">>, wf |-> TRUE],
    [txt |-> <<"2","0","2","4","-","0","5","-","1","4"," ","1","5",":","3","0",":","0","0">>, wf |-> FALSE],
    [txt |-> <<"2","4","/","0","5","/","1","4"," ","1","5",":","3","0",":","0","0">>, wf |-> FALSE],
    [txt |-> <<"2","0","2","4","/","0","5","/","1","4"," ","1","5",":","3","0">>, wf |-> FALSE],
    [txt |-> <<>>, wf |-> FALSE] >>

\* what precedes the record on the line
PrefixVariants == << <<>>, <<">"," ">> >>

Records == [he : DOMAIN HeVariants, o2 : DOMAIN O2Variants, ti : DOMAIN TiVariants,
            hpa : DOMAIN HPaVariants, date : DOMAIN DateVariants, pre : DOMAIN PrefixVariants]

\* the documented example line
ExampleRecord == [he |-> 1, o2 |-> 1, ti |-> 1, hpa |-> 1, date |-> 1, pre |-> 1]

WellFormed(r) ==
    /\ HeVariants[r.he].wf
    /\ O2Variants[r.o2].wf
    /\ TiVariants[r.ti].wf
    /\ HPaVariants[r.hpa].wf
    /\ DateVariants[r.date].wf

RECURSIVE Join(_)
Join(parts) ==
    IF parts = <<>> THEN <<>>
    ELSE IF Head(parts) = <<>> THEN Join(Tail(parts))
    ELSE IF Join(Tail(parts)) = <<>> THEN Head(parts)
    ELSE Head(parts) \o <<" ">> \o Join(Tail(parts))

\* the bytes on the wire: the fields separated by blanks, ended by CR LF
Wire(r) ==
    PrefixVariants[r.pre]
    \o Join(<<HeVariants[r.he].txt, O2Variants[r.o2].txt, TiVariants[r.ti].txt,
              HPaVariants[r.hpa].txt, DateVariants[r.date].txt>>)
    \o <<"\r", "\n">>

RECURSIVE LStrip(_)
LStrip(s) == IF s # <<>> /\ Head(s) \in Space THEN LStrip(Tail(s)) ELSE s

RECURSIVE RStrip(_)
RStrip(s) == IF s # <<>> /\ s[Len(s)] \in Space THEN RStrip(SubSeq(s, 1, Len(s) - 1)) ELSE s

\* str.strip()
Strip(s) == RStrip(LStrip(s))

(***************************************************************************)
(* The regular expression of parse_data and re.search                      *)
(***************************************************************************)
\* pattern elements: a run of single characters, each of a class (a literal
\* or \d{n}), or a class under + or *; open and close number the capture
\* group that begins before and ends after the element (0: none)
Chars(cs) == [k |-> "seq", cs |-> cs, c |-> {}, open |-> 0, close |-> 0]
Lit(str) == <<Chars([i \in DOMAIN str |-> {str[i]}])>>
Plus(c) == <<[k |-> "plus", cs |-> <<>>, c |-> c, open |-> 0, close |-> 0]>>
Star(c) == <<[k |-> "star", cs |-> <<>>, c |-> c, open |-> 0, close |-> 0]>>
Digits(n) == <<Chars([i \in 1..n |-> Digit])>>

\* ( ... ) as group g around the elements es
Group(g, es) ==
    [i \in DOMAIN es |->
        [es[i] EXCEPT !.open = IF i = 1 THEN g ELSE @,
                      !.close = IF i = Len(es) THEN g ELSE @]]

\* (\d+\.\d+) as group g
Decimal(g) == Group(g, Plus(Digit) \o Lit(<<".">>) \o Plus(Digit))

\* (\d{4}/\d{2}/\d{2}\s+\d{2}:\d{2}:\d{2}) as group 5
Timestamp ==
    Group(5, Digits(4) \o Lit(<<"/">>) \o Digits(2) \o Lit(<<"/">>) \o Digits(2) \o Plus(Space)
             \o Digits(2) \o Lit(<<":">>) \o Digits(2) \o Lit(<<":">>) \o Digits(2))

\* the first line of the pattern, with only \s* before hPa
pattern_line1 ==
    Lit(<<"H", "e">>) \o Plus(Space) \o Decimal(1) \o Star(Space) \o Lit(<<"%">>) \o Star(Space)
    \o Lit(<<"O", "2">>) \o Plus(Space) \o Decimal(2) \o Star(Space) \o Lit(<<"%">>) \o Star(Space)
    \o Lit(<<"T", "i">>) \o Plus(Space) \o Decimal(3) \o Star(Space) \o Lit(<<"~", "C">>)
    \o Plus(Space) \o Decimal(4) \o Star(Space)

\* the pattern with the timestamp left out
pattern_no_timestamp == pattern_line1 \o Lit(<<"h", "P", "a">>)

pattern == pattern_line1 \o Lit(<<"h", "P", "a">>) \o Plus(Space) \o Timestamp

NoGroups == [g \in 1..5 |-> <<0, 0>>]
NoMatch == [ok |-> FALSE, cap |-> NoGroups]

RECURSIVE RunLen(_, _, _)
\* the number of consecutive characters of class c from position pos
RunLen(data, pos, c) ==
    IF pos <= Len(data) /\ data[pos] \in c THEN 1 + RunLen(data, pos + 1, c) ELSE 0

\* the capture groups after element e has matched data[from .. to-1]
Capture(e, cap, from, to) ==
    [g \in DOMAIN cap |->
        << IF e.open = g THEN from ELSE cap[g][1],
           IF e.close = g THEN to ELSE cap[g][2] >>]

\* the ways element e matches at thread th, in the order the re module tries
\* them: a quantifier first takes as many characters as it can, then gives
\* them back one at a time
StepElem(e, data, th) ==
    IF e.k = "seq"
    THEN IF /\ th.pos + Len(e.cs) - 1 <= Len(data)
            /\ \A i \in DOMAIN e.cs : data[th.pos + i - 1] \in e.cs[i]
         THEN <<[pos |-> th.pos + Len(e.cs),
                 cap |-> Capture(e, th.cap, th.pos, th.pos + Len(e.cs))]>>
         ELSE <<>>
    ELSE LET n == RunLen(data, th.pos, e.c)
             min == IF e.k = "plus" THEN 1 ELSE 0
         IN  [i \in 1..(n - min + 1) |->
                 [pos |-> th.pos + (n - i + 1),
                  cap |-> Capture(e, th.cap, th.pos, th.pos + (n - i + 1))]]

RECURSIVE StepAll(_, _, _)
StepAll(e, data, ths) ==
    IF ths = <<>> THEN <<>>
    ELSE StepElem(e, data, Head(ths)) \o StepAll(e, data, Tail(ths))

RECURSIVE Run(_, _, _, _)
\* the alternatives that remain after elements pi.. of the pattern, in order
Run(pat, data, pi, ths) ==
    IF pi > Len(pat) \/ ths = <<>> THEN ths
    ELSE Run(pat, data, pi + 1, StepAll(pat[pi], data, ths))

\* the match that starts at position start, if any
MatchAt(pat, data, start) ==
    LET ths == Run(pat, data, 1, <<[pos |-> start, cap |-> NoGroups]>>) IN
    IF ths = <<>> THEN NoMatch ELSE [ok |-> TRUE, cap |-> ths[1].cap]

\* re.search(pattern, data): the leftmost match
re_search(pat, data) ==
    LET starts == {i \in 1..(Len(data) + 1) : MatchAt(pat, data, i).ok} IN
    IF starts = {} THEN NoMatch
    ELSE MatchAt(pat, data, CHOOSE i \in starts : \A j \in starts : i <= j)

\* match.group(g)
group(data, m, g) == SubSeq(data, m.cap[g][1], m.cap[g][2] - 1)

\* parse_data with match.group(2) in place of match.group(1)
parse_data_group2(data) ==
    LET match == re_search(pattern, data) IN
    IF match.ok THEN PyStr(group(data, match, 2)) ELSE None

\* parse_data with the second line of the pattern left out
parse_data_no_timestamp(data) ==
    LET match == re_search(pattern_no_timestamp, data) IN
    IF match.ok THEN PyStr(group(data, match, 1)) ELSE None

parse_data(data) ==
    LET match == re_search(pattern, data) IN
    IF match.ok THEN PyStr(group(data, match, 1)) ELSE None

(***************************************************************************)
(* read_data_from_helium and read_from_serial                              *)
(***************************************************************************)
HeliumPorts == {"", "COM5"}

MsgDisconnected == "Helium Analyzer Port disconnected."
MsgFailedOpen == "Failed to open Helium Analyzer."
MsgNoPort == "Please specify a COM Port for Helium Analyzer."

InitHelium ==
    /\ h_pc = "start"
    /\ h_port \in HeliumPorts
    /\ h_opened = FALSE
    /\ h_depth = 0
    /\ h_record \in Records
    /\ h_data = <<>>
    /\ h_parsed = None
    /\ h_event = "none"
    /\ h_ret = None
    /\ h_shown = {}

\* the value the outermost read_from_serial frame returns when the frame at
\* depth d returns v: a frame that recursed falls off its end
ReturnThrough(d, v) == IF d = 1 THEN v ELSE None

\* port is falsy: the warning is shown, nothing is opened
HeliumNoPort ==
    /\ h_pc = "start"
    /\ h_port = ""
    /\ h_shown' = h_shown \cup {MsgNoPort}
    /\ h_event' = "no_port"
    /\ h_ret' = None
    /\ h_pc' = "done"
    /\ UNCHANGED <<h_port, h_opened, h_depth, h_record, h_data, h_parsed, not_helium_vars>>

\* serial.Serial(port, baud_rate) raises SerialException
HeliumOpenFails ==
    /\ h_pc = "start"
    /\ h_port # ""
    /\ h_shown' = h_shown \cup {MsgFailedOpen}
    /\ h_event' = "open_error"
    /\ h_ret' = None
    /\ h_pc' = "done"
    /\ UNCHANGED <<h_port, h_opened, h_depth, h_record, h_data, h_parsed, not_helium_vars>>

\* serial.Serial(port, baud_rate) succeeds; read_from_serial is entered
HeliumOpen ==
    /\ h_pc = "start"
    /\ h_port # ""
    /\ h_opened' = TRUE
    /\ h_depth' = 1
    /\ h_pc' = "reading"
    /\ UNCHANGED <<h_port, h_record, h_data, h_parsed, h_event, h_ret, h_shown, not_helium_vars>>

\* ser.in_waiting is 0: read_from_serial calls itself
PollNoData ==
    /\ h_pc = "reading"
    /\ h_depth <= MaxPolls
    /\ h_depth' = h_depth + 1
    /\ UNCHANGED <<h_pc, h_port, h_opened, h_record, h_data, h_parsed, h_event, h_ret, h_shown,
                   not_helium_vars>>

\* ser.in_waiting > 0: the line is read, stripped and parsed, and every frame returns
PollData ==
    /\ h_pc = "reading"
    /\ h_data' = Strip(Wire(h_record))
    /\ h_parsed' = parse_data(h_data')
    /\ h_ret' = ReturnThrough(h_depth, h_parsed')
    /\ h_event' = "data"
    /\ h_depth' = 0
    /\ h_pc' = "done"
    /\ UNCHANGED <<h_port, h_opened, h_record, h_shown, not_helium_vars>>

\* ser.in_waiting or ser.readline() raises SerialException: caught in the
\* frame that polled, which shows the error and returns 0
PollSerialError ==
    /\ h_pc = "reading"
    /\ h_shown' = h_shown \cup {MsgDisconnected}
    /\ h_ret' = ReturnThrough(h_depth, PyInt(0))
    /\ h_event' = "serial_error"
    /\ h_depth' = 0
    /\ h_pc' = "done"
    /\ UNCHANGED <<h_port, h_opened, h_record, h_data, h_parsed, not_helium_vars>>

NextHelium ==
    \/ HeliumNoPort
    \/ HeliumOpenFails
    \/ HeliumOpen
    \/ PollNoData
    \/ PollData
    \/ PollSerialError

(***************************************************************************)
(* Exact arithmetic: rationals n/d in lowest terms, and reals of the form  *)
(* q * sqrt(rad) for the temperature correction                            *)
(***************************************************************************)
Abs(x) == IF x < 0 THEN -x ELSE x

RECURSIVE GCD(_, _)
GCD(a, b) == IF b = 0 THEN Abs(a) ELSE GCD(b, a % b)

Rat(n, d) ==
    LET g == GCD(Abs(n), Abs(d))
        sgn == IF d < 0 THEN -1 ELSE 1
    IN  [n |-> sgn * (n \div g), d |-> sgn * (d \div g)]

RatMul(a, b) ==
    LET x == Rat(a.n, b.d)
        y == Rat(b.n, a.d)
    IN  Rat(x.n * y.n, x.d * y.d)
RatDiv(a, b) == RatMul(a, Rat(b.d, b.n))
RatAdd(a, b) == Rat(a.n * b.d + b.n * a.d, a.d * b.d)
RatSub(a, b) == Rat(a.n * b.d - b.n * a.d, a.d * b.d)
RatGt(a, b) == a.n * b.d > b.n * a.d
RatInt(k) == Rat(k, 1)

\* the largest k with k*k dividing n
SquarePart(n) ==
    LET squares == {k \in 1..n : k * k <= n /\ n % (k * k) = 0}
    IN  CHOOSE k \in squares : \A j \in squares : j <= k

\* q * sqrt(rad), rad > 0, in normal form: rad = 1 or rad has no square factor
Real(q) == [q |-> q, rad |-> RatInt(1)]
Normal(q, rad) ==
    LET kn == SquarePart(rad.n)
        kd == SquarePart(rad.d)
    IN  [q |-> RatMul(q, Rat(kn, kd)),
         rad |-> Rat(rad.n \div (kn * kn), rad.d \div (kd * kd))]
\* v * (r ** 0.5)
ScaleSqrt(v, r) == Normal(v.q, RatMul(v.rad, r))

(***************************************************************************)
(* create_pdf.py: constants, convert_he_to_air, get_elem_direction_value    *)
(***************************************************************************)
ETA_HE == Rat(196, 10)
ETA_AIR == Rat(1819, 100)
PA1 == RatInt(1)
PA2 == RatInt(0)
PB2 == RatInt(1)
T1 == RatInt(273)

\* what create() can put into a Report: the unit menu depends on the medium
Mediums == {"He", "Air"}
RateUnits(medium) == IF medium = "He" THEN {"Mbar*L/s", "cm3/min"} ELSE {"cm3/min", "SCCM"}
PressureDifferences == {RatInt(0), Rat(1, 2), RatInt(1), Rat(-1, 2), RatInt(-2), RatInt(-3)}

\* the leak rates and average temperatures of the stored measurements
LeakRates == {RatInt(0), Rat(1, 1000), Rat(3, 100), RatInt(2)}
Temperatures == {RatInt(273), RatInt(293), RatInt(298)}

Sq(r) == RatMul(r, r)

\* convert_he_to_air with "delta_p >= 0" in place of "delta_p > 0"
convert_he_to_air_ge(report, he_leak_rate, average_temperature) ==
    LET pb1 == RatAdd(report.pressure_difference, RatInt(1))
        delta_p == RatDiv(RatSub(Sq(pb1), Sq(PB2)), RatSub(Sq(PA1), Sq(PA2)))
        air_leakrate == RatMul(he_leak_rate, RatDiv(ETA_HE, ETA_AIR))
        air2 == IF ~RatGt(RatInt(0), delta_p) THEN RatMul(air_leakrate, delta_p)
                ELSE air_leakrate
    IN  IF report.rate_unit = "SCCM"
        THEN ScaleSqrt(Real(RatMul(air2, RatInt(60))), RatDiv(average_temperature, T1))
        ELSE Real(air2)

\* the first lines of convert_he_to_air with the test of delta_p left out
air_leakrate_before_unit_unguarded(report, he_leak_rate) ==
    LET pb1 == RatAdd(report.pressure_difference, RatInt(1))
        delta_p == RatDiv(RatSub(Sq(pb1), Sq(PB2)), RatSub(Sq(PA1), Sq(PA2)))
        air_leakrate == RatMul(he_leak_rate, RatDiv(ETA_HE, ETA_AIR))
    IN  RatMul(air_leakrate, delta_p)

\* convert_he_to_air up to "if report_data.rate_unit": the value of
\* air_leakrate before the unit is looked at
air_leakrate_before_unit(report, he_leak_rate) ==
    LET pb1 == RatAdd(report.pressure_difference, RatInt(1))
        delta_p == RatDiv(RatSub(Sq(pb1), Sq(PB2)), RatSub(Sq(PA1), Sq(PA2)))
        air_leakrate == RatMul(he_leak_rate, RatDiv(ETA_HE, ETA_AIR))
    IN  IF RatGt(delta_p, RatInt(0)) THEN RatMul(air_leakrate, delta_p)
        ELSE air_leakrate

\* the closure convert_he_to_air of create_pdf; report is the report_data it
\* closes over
convert_he_to_air(report, he_leak_rate, average_temperature) ==
    LET air2 == air_leakrate_before_unit(report, he_leak_rate)
    IN  IF report.rate_unit = "SCCM"
        THEN ScaleSqrt(Real(RatMul(air2, RatInt(60))), RatDiv(average_temperature, T1))
        ELSE Real(air2)

\* the direction codes a specification may hold
Directions ==
    {PyStr(<<c>>) : c \in {"0", "1", "2", "3", "4", "5", "6", "9", " ", "a"}}
    \cup {PyStr(<<>>), PyStr(<<"1", "0">>), PyStr(<<"0", "5">>), PyStr(<<" ", "1">>), None}
    \cup {PyInt(k) : k \in 0..5}

\* get_elem_direction_value with the labels of "2" and "3" exchanged
get_elem_direction_value_swapped(direction) ==
    IF direction = PyStr(<<"0">>) THEN "Nut facing upwards"
    ELSE IF direction = PyStr(<<"1">>) THEN "Nut facing downwards"
    ELSE IF direction = PyStr(<<"2">>) THEN "Capnut facing downwards"
    ELSE IF direction = PyStr(<<"3">>) THEN "Capnut facing upwards"
    ELSE IF direction = PyStr(<<"4">>) THEN "Bolt facing upwards"
    ELSE IF direction = PyStr(<<"5">>) THEN "Bolt facing downwards"
    ELSE ""

get_elem_direction_value(direction) ==
    IF direction = PyStr(<<"0">>) THEN "Nut facing upwards"
    ELSE IF direction = PyStr(<<"1">>) THEN "Nut facing downwards"
    ELSE IF direction = PyStr(<<"2">>) THEN "Capnut facing upwards"
    ELSE IF direction = PyStr(<<"3">>) THEN "Capnut facing downwards"
    ELSE IF direction = PyStr(<<"4">>) THEN "Bolt facing upwards"
    ELSE IF direction = PyStr(<<"5">>) THEN "Bolt facing downwards"
    ELSE ""

NoCall == [made |-> FALSE]
NoReport == [test_medium |-> "", rate_unit |-> "", pressure_difference |-> RatInt(0)]

InitPdf ==
    /\ report_data = NoReport
    /\ p_saved = NoReport
    /\ p_ncalls = 0
    /\ p_prev = NoCall
    /\ p_last = NoCall
    /\ p_direction = None
    /\ p_elem = ""

\* create(): the Report is built from the dialog, saved and handed to create_pdf
CreateReport ==
    /\ \E m \in Mediums : \E u \in RateUnits(m) : \E pd \in PressureDifferences :
          report_data' = [test_medium |-> m, rate_unit |-> u, pressure_difference |-> pd]
    /\ p_saved' = report_data'
    /\ p_ncalls' = 0
    /\ p_prev' = NoCall
    /\ p_last' = NoCall
    /\ UNCHANGED <<p_direction, p_elem, not_pdf_vars>>

\* a call that stores pb1 back into report_data.pressure_difference
ConvertHeToAirWritesBack ==
    /\ report_data.test_medium = "Air"
    /\ p_ncalls < MaxCalls
    /\ \E he \in LeakRates, t \in Temperatures :
          /\ p_last' = [made |-> TRUE, he_leak_rate |-> he, average_temperature |-> t,
                        pressure_difference |-> report_data.pressure_difference,
                        rate_unit |-> report_data.rate_unit,
                        before_unit |-> air_leakrate_before_unit(report_data, he),
                        air_leakrate |-> convert_he_to_air(report_data, he, t)]
    /\ report_data' = [report_data EXCEPT
                          !.pressure_difference = RatAdd(@, RatInt(1))]
    /\ p_prev' = p_last
    /\ p_ncalls' = p_ncalls + 1
    /\ UNCHANGED <<p_saved, p_direction, p_elem, not_pdf_vars>>

\* create_pdf calls convert_he_to_air for a value of a measurement or a
\* specimen; it does so only when the medium is Air
ConvertHeToAir ==
    /\ report_data.test_medium = "Air"
    /\ p_ncalls < MaxCalls
    /\ \E he \in LeakRates, t \in Temperatures :
          /\ p_last' = [made |-> TRUE, he_leak_rate |-> he, average_temperature |-> t,
                        pressure_difference |-> report_data.pressure_difference,
                        rate_unit |-> report_data.rate_unit,
                        before_unit |-> air_leakrate_before_unit(report_data, he),
                        air_leakrate |-> convert_he_to_air(report_data, he, t)]
    /\ p_prev' = p_last
    /\ p_ncalls' = p_ncalls + 1
    /\ UNCHANGED <<report_data, p_saved, p_direction, p_elem, not_pdf_vars>>

\* create_pdf looks up the label of the specification's direction code
GetElemDirectionValue ==
    /\ report_data # NoReport
    /\ \E d \in Directions :
          /\ p_direction' = d
          /\ p_elem' = get_elem_direction_value(d)
    /\ UNCHANGED <<report_data, p_saved, p_ncalls, p_prev, p_last, not_pdf_vars>>

NextPdf ==
    \/ CreateReport
    \/ ConvertHeToAir
    \/ GetElemDirectionValue

(***************************************************************************)
(* HeliumLeakTestApp.py: get_power_on_time                                 *)
(***************************************************************************)
\* the replies of the leak detector to "*hour:pow?": blanks, a sign, digits,
\* further characters and a line end; int is whether the digits are a decimal
\* integer, val its value
ReplyDigits == <<
    [txt |-> <<>>, int |-> FALSE, val |-> 0],
    [txt |-> <<"0">>, int |-> TRUE, val |-> 0],
    [txt |-> <<"7">>, int |-> TRUE, val |-> 7],
    [txt |-> <<"1", "9">>, int |-> TRUE, val |-> 19],
    [txt |-> <<"0", "5">>, int |-> TRUE, val |-> 5],
    [txt |-> <<"2", "5">>, int |-> TRUE, val |-> 25],
    [txt |-> <<"1", "_", "0">>, int |-> TRUE, val |-> 10],
    [txt |-> <<"_", "3">>, int |-> FALSE, val |-> 0] >>
ReplyLead == {<<>>, <<" ">>}
ReplySign == {<<>>, <<"-">>, <<"+">>}
ReplyRest == {<<>>, <<".", "5">>, <<"h">>, <<" ", "3">>}
ReplyEnd == {<<>>, <<"\r">>, <<"\r", "\n">>}

\* decodable: the bytes are valid UTF-8; further characters that begin with a
\* blank follow digits only
Replies ==
    {r \in [lead : ReplyLead, sign : ReplySign, digits : DOMAIN ReplyDigits, rest : ReplyRest,
            end : ReplyEnd, decodable : {TRUE}] :
        r.rest = <<" ", "3">> => ReplyDigits[r.digits].txt # <<>>}
    \cup [lead : {<<>>}, sign : {<<>>}, digits : {3}, rest : {<<>>}, end : {<<"\r", "\n">>},
          decodable : {FALSE}]

ReplyText(r) == r.lead \o r.sign \o ReplyDigits[r.digits].txt \o r.rest \o r.end

\* the reply is the text of an integer, and its value
ReplyIsInteger(r) == r.decodable /\ ReplyDigits[r.digits].int /\ r.rest = <<>>
ReplyValue(r) == IF r.sign = <<"-">> THEN -ReplyDigits[r.digits].val ELSE ReplyDigits[r.digits].val

\* the serial session: the call that raises SerialException, if any, and the reply
FailAt == {"none", "open", "write", "read", "flush"}
PowerEnvs == [fail_at : FailAt, reply : Replies]

\* results of a statement: a value, or an exception
Returned(v) == [exc |-> "none", val |-> v]
Raised(e) == [exc |-> e, val |-> 0]

DigitValue(c) ==
    CASE c = "0" -> 0 [] c = "1" -> 1 [] c = "2" -> 2 [] c = "3" -> 3 [] c = "4" -> 4
      [] c = "5" -> 5 [] c = "6" -> 6 [] c = "7" -> 7 [] c = "8" -> 8 [] c = "9" -> 9

RECURSIVE DecimalValue(_)
\* the value of a run of digits and underscores
DecimalValue(ds) ==
    IF ds = <<>> THEN 0
    ELSE IF ds[Len(ds)] = "_" THEN DecimalValue(SubSeq(ds, 1, Len(ds) - 1))
    ELSE 10 * DecimalValue(SubSeq(ds, 1, Len(ds) - 1)) + DigitValue(ds[Len(ds)])

\* int(text): blanks are stripped, a sign may lead, digits follow, single
\* underscores may separate digits; anything else is a ValueError
py_int(text) ==
    LET t == Strip(text)
        signed == t # <<>> /\ t[1] \in {"+", "-"}
        body == IF signed THEN Tail(t) ELSE t
        valid == /\ body # <<>>
                 /\ \A i \in DOMAIN body : body[i] \in Digit \cup {"_"}
                 /\ body[1] \in Digit
                 /\ body[Len(body)] \in Digit
                 /\ \A i \in 1..(Len(body) - 1) : ~(body[i] = "_" /\ body[i + 1] = "_")
    IN  IF ~valid THEN Raised("ValueError")
        ELSE IF signed /\ t[1] = "-" THEN Returned(-DecimalValue(body))
        ELSE Returned(DecimalValue(body))

\* int(serial_port_leak_detector.readline().decode())
ReadPowerOn(env) ==
    IF env.fail_at = "read" THEN Raised("SerialException")
    ELSE IF ~env.reply.decodable THEN Raised("ValueError")    \* UnicodeDecodeError
    ELSE py_int(ReplyText(env.reply))

\* the inner try: "except ValueError" sets time_pwron = 0
TimePwron(env) ==
    LET r == ReadPowerOn(env) IN
    IF r.exc = "ValueError" THEN Returned(0) ELSE r

\* the body of the outer try, up to "return time_pwron"
PowerOnSession(env, time_pwron) ==
    IF env.fail_at \in {"open", "write"} THEN Raised("SerialException")
    ELSE IF time_pwron.exc # "none" THEN time_pwron
    ELSE IF env.fail_at = "flush" THEN Raised("SerialException")
    ELSE time_pwron

\* get_power_on_time without the inner "except ValueError"
get_power_on_time_no_inner_except(available, env) ==
    IF available
    THEN LET r == PowerOnSession(env, ReadPowerOn(env)) IN
         IF r.exc = "SerialException" THEN Returned(0) ELSE r
    ELSE Returned(0)

\* get_power_on_time: the outer "except serial.SerialException" falls through
\* to "return 0"
get_power_on_time(available, env) ==
    IF available
    THEN LET r == PowerOnSession(env, TimePwron(env)) IN
         IF r.exc = "SerialException" THEN Returned(0) ELSE r
    ELSE Returned(0)

NoPowerEnv == [fail_at |-> "none",
               reply |-> [lead |-> <<>>, sign |-> <<>>, digits |-> 1, rest |-> <<>>,
                          end |-> <<>>, decodable |-> TRUE]]

InitPower ==
    /\ leakDetector_available \in BOOLEAN
    /\ pw_pc = "start"
    /\ pw_env = NoPowerEnv
    /\ pw_result = Returned(0)

\* the call of get_power_on_time at start-up
GetPowerOnTime ==
    /\ pw_pc = "start"
    /\ \E env \in PowerEnvs :
          /\ pw_env' = env
          /\ pw_result' = get_power_on_time(leakDetector_available, env)
    /\ pw_pc' = "done"
    /\ UNCHANGED <<leakDetector_available, not_power_vars>>

NextPower == GetPowerOnTime

(***************************************************************************)
(* check_serial.py: get_serial_devices and stop_gas_flow                   *)
(***************************************************************************)
INFICON_LEAK_DETECTOR_VID == 1240
HELIUM_ANALYZER_VID == 42496
SERIAL_PORT_VID == 1027
OtherVid == 9025

DeviceNames == {"Leak Detector", "Helium Analyzer", "Mass Flow Controller", "Relay Switch"}

\* port.device of the i-th enumerated port
PortDevice(i) == <<"C", "O", "M", CASE i = 1 -> "3" [] i = 2 -> "4" [] i = 3 -> "5" [] OTHER -> "6">>

ReplyOK == <<"O", "K", "\r", "\n">>
ReplyNAK == <<"N", "A", "K", "\r", "\n">>
\* a byte that is no valid UTF-8 start byte, and a reply that holds one (line
\* noise of a device that talks at another baud rate)
InvalidByte == "0xFF"
ReplyNoise == <<InvalidByte, "\r", "\n">>

\* what can be plugged into a port: the vendor id (None for a port that is not
\* USB), whether a relay board answers connect() there, and what the device
\* does with the stop command "*@=B"
PortKinds ==
    {[vid |-> PyInt(v), relay |-> FALSE, stop_exc |-> FALSE, stop_reply |-> <<>>] :
        v \in {INFICON_LEAK_DETECTOR_VID, HELIUM_ANALYZER_VID, OtherVid}}
    \cup {[vid |-> None, relay |-> FALSE, stop_exc |-> FALSE, stop_reply |-> <<>>]}
    \cup {[vid |-> PyInt(SERIAL_PORT_VID), relay |-> FALSE, stop_exc |-> FALSE, stop_reply |-> r] :
            r \in {ReplyOK, ReplyNAK, ReplyNoise}}
    \cup {[vid |-> PyInt(SERIAL_PORT_VID), relay |-> FALSE, stop_exc |-> TRUE, stop_reply |-> <<>>],
          [vid |-> PyInt(SERIAL_PORT_VID), relay |-> TRUE, stop_exc |-> FALSE, stop_reply |-> ReplyNAK]}

PortLists == UNION {[1..n -> PortKinds] : n \in 0..MaxPorts}

DigitChar(k) ==
    CASE k = 0 -> "0" [] k = 1 -> "1" [] k = 2 -> "2" [] k = 3 -> "3" [] k = 4 -> "4"
      [] k = 5 -> "5" [] k = 6 -> "6" [] k = 7 -> "7" [] k = 8 -> "8" [] k = 9 -> "9"

RECURSIVE DecimalText(_)
DecimalText(k) == IF k < 10 THEN <<DigitChar(k)>> ELSE DecimalText(k \div 10) \o <<DigitChar(k % 10)>>

\* str(port.vid)
py_str(v) ==
    IF v.t = "int" THEN PyStr(DecimalText(v.n))
    ELSE IF v.t = "None" THEN PyStr(<<"N", "o", "n", "e">>)
    ELSE v

\* bytes.decode(): UnicodeDecodeError on a byte that is not UTF-8
decode(bytes) ==
    IF \E k \in 1..Len(bytes) : bytes[k] = InvalidByte
    THEN Raised("UnicodeDecodeError")
    ELSE Returned(bytes)

\* stop_gas_flow(port): True exactly when the decoded, stripped reply is "OK";
\* the except clause names serial.SerialException only, so the error of
\* decode() leaves the function
stop_gas_flow(port) ==
    IF port.stop_exc THEN Returned(FALSE)
    ELSE IF decode(port.stop_reply).exc # "none" THEN Raised(decode(port.stop_reply).exc)
    ELSE Returned(Strip(decode(port.stop_reply).val) = <<"O", "K">>)

\* stop_gas_flow has not been called in this scan
NoStopCall == [made |-> FALSE, port |-> <<>>, result |-> Returned(FALSE)]

Unset == [port |-> <<>>, is_available |-> FALSE]
Found(i) == [port |-> Strip(PortDevice(i)), is_available |-> TRUE]

\* the second loop's classification with the stop_gas_flow test left out
ClassifyNoStopCheck(cfg, i, port) ==
    IF port.vid = PyInt(INFICON_LEAK_DETECTOR_VID)
    THEN [cfg EXCEPT !["Leak Detector"] = Found(i)]
    ELSE IF port.vid = PyInt(HELIUM_ANALYZER_VID)
    THEN [cfg EXCEPT !["Helium Analyzer"] = Found(i)]
    ELSE IF port.vid = PyInt(SERIAL_PORT_VID)
    THEN [cfg EXCEPT !["Mass Flow Controller"] = Found(i)]
    ELSE cfg

\* the if/elif chain of the second loop for the i-th port
Classify(cfg, i, port) ==
    IF port.vid = PyInt(INFICON_LEAK_DETECTOR_VID)
    THEN [cfg EXCEPT !["Leak Detector"] = Found(i)]
    ELSE IF port.vid = PyInt(HELIUM_ANALYZER_VID)
    THEN [cfg EXCEPT !["Helium Analyzer"] = Found(i)]
    ELSE IF port.vid = PyInt(SERIAL_PORT_VID)
    THEN IF stop_gas_flow(port).exc = "none" /\ stop_gas_flow(port).val
         THEN [cfg EXCEPT !["Mass Flow Controller"] = Found(i)]
         ELSE cfg
    ELSE cfg

InitScan ==
    /\ sc_pc = "idle"
    /\ sc_i = 0
    /\ ports = <<>>
    /\ relay_switch = FALSE
    /\ turned_on = FALSE
    /\ waited = FALSE
    /\ devcfg = [d \in DeviceNames |-> Unset]
    /\ db_devcfg = [d \in DeviceNames |-> Unset]
    /\ devices = <<>>
    /\ stop_call = NoStopCall

\* refresh_list calls get_serial_devices: the ports are enumerated
ScanStart ==
    /\ sc_pc \in {"idle", "done"}
    /\ ports' \in PortLists
    /\ devices' = <<>>
    /\ relay_switch' = FALSE
    /\ turned_on' = FALSE
    /\ waited' = FALSE
    /\ sc_i' = 1
    /\ sc_pc' = "relay"
    /\ stop_call' = NoStopCall
    /\ UNCHANGED <<devcfg, db_devcfg, not_scan_vars>>

\* one pass of the first loop: the test compares str(port.vid) with the
\* integer SERIAL_PORT_VID; on a connected relay the loop is left
RelayScanPort ==
    /\ sc_pc = "relay"
    /\ sc_i <= Len(ports)
    /\ IF py_str(ports[sc_i].vid) = PyInt(SERIAL_PORT_VID)
       THEN /\ relay_switch' = TRUE
            /\ IF ports[sc_i].relay
               THEN /\ devcfg' = [devcfg EXCEPT !["Relay Switch"] = Found(sc_i)]
                    /\ sc_i' = Len(ports) + 1
               ELSE /\ devcfg' = devcfg
                    /\ sc_i' = sc_i + 1
       ELSE /\ sc_i' = sc_i + 1
            /\ UNCHANGED <<relay_switch, devcfg>>
    /\ UNCHANGED <<sc_pc, ports, turned_on, waited, db_devcfg, devices, stop_call, not_scan_vars>>

\* after the first loop: "if relay_switch:" turns the devices on and sleeps
TurnOnDevices ==
    /\ sc_pc = "relay"
    /\ sc_i > Len(ports)
    /\ turned_on' = relay_switch
    /\ waited' = relay_switch
    /\ sc_i' = 1
    /\ sc_pc' = "classify"
    /\ UNCHANGED <<ports, relay_switch, devcfg, db_devcfg, devices, stop_call, not_scan_vars>>

\* the pass of the second loop calls stop_gas_flow
CallsStopGasFlow(port) ==
    /\ port.vid # PyInt(INFICON_LEAK_DETECTOR_VID)
    /\ port.vid # PyInt(HELIUM_ANALYZER_VID)
    /\ port.vid = PyInt(SERIAL_PORT_VID)

\* one pass of the second loop; an exception of stop_gas_flow leaves the loop,
\* get_serial_devices and refresh_list
ClassifyPort ==
    /\ sc_pc = "classify"
    /\ sc_i <= Len(ports)
    /\ devices' = Append(devices, PortDevice(sc_i))
    /\ stop_call' = IF CallsStopGasFlow(ports[sc_i])
                    THEN [made |-> TRUE, port |-> ports[sc_i], result |-> stop_gas_flow(ports[sc_i])]
                    ELSE stop_call
    /\ IF CallsStopGasFlow(ports[sc_i]) /\ stop_gas_flow(ports[sc_i]).exc # "none"
       THEN /\ sc_pc' = "raised"
            /\ UNCHANGED <<devcfg, sc_i>>
       ELSE /\ devcfg' = Classify(devcfg, sc_i, ports[sc_i])
            /\ sc_i' = sc_i + 1
            /\ sc_pc' = sc_pc
    /\ UNCHANGED <<ports, relay_switch, turned_on, waited, db_devcfg, not_scan_vars>>

\* after the second loop: repository.update_device_info() and return devices
ScanDone ==
    /\ sc_pc = "classify"
    /\ sc_i > Len(ports)
    /\ db_devcfg' = devcfg
    /\ sc_pc' = "done"
    /\ UNCHANGED <<sc_i, ports, relay_switch, turned_on, waited, devcfg, devices, stop_call, not_scan_vars>>

NextScan ==
    \/ ScanStart
    \/ RelayScanPort
    \/ TurnOnDevices
    \/ ClassifyPort
    \/ ScanDone

(***************************************************************************)
(* create_report.py: create(); create_pdf.py: the values of the report     *)
(***************************************************************************)
\* at most this many reports are requested for the session
MaxReports == 2
\* at most this many measurements are stored for the session
MaxMeasurements == 2

\* the stored measurements of the session: Measurement objects of the
\* repository, never empty here
MeasurementRecords ==
    {[value_mbarl_second |-> Real(Rat(1, 1000)), max_value |-> Real(Rat(3, 100)),
      average_temperature |-> RatInt(293)],
     [value_mbarl_second |-> Real(Rat(3, 100)), max_value |-> Real(RatInt(2)),
      average_temperature |-> RatInt(273)],
     [value_mbarl_second |-> Real(RatInt(0)), max_value |-> Real(Rat(1, 1000)),
      average_temperature |-> RatInt(298)]}
MeasurementLists == UNION {[1..n -> MeasurementRecords] : n \in 1..MaxMeasurements}

\* json.loads(specimen.y_value) of the stored specimens
SpecimenLists == {<<>>, << <<Rat(1, 1000), Rat(3, 100)>> >>}

\* what the pressure-difference box can hold
PressureTexts ==
    {<<>>, <<"0", ".", "5">>, <<"-", "0", ".", "5">>, <<"1">>, <<"0", ",", "5">>}

\* the dialog: the medium radio button, the unit menu that upload_image_layout
\* builds for it, the pressure-difference box, the graph radio button
DialogEntries ==
    UNION {{[medium |-> md, rate_unit |-> u, pressure_difference |-> pt, graph_type |-> 0] :
                u \in RateUnits(IF md = 0 THEN "He" ELSE "Air"), pt \in PressureTexts} :
            md \in {0, 1}}

\* float(x) for the int 0 and for a text: optional sign, digits, optional
\* point and digits
py_float(v) ==
    IF v.t = "int" THEN Returned(RatInt(v.n))
    ELSE LET t == Strip(v.s)
             signed == t # <<>> /\ t[1] \in {"+", "-"}
             body == IF signed THEN Tail(t) ELSE t
             dots == {k \in DOMAIN body : body[k] = "."}
             point == IF dots = {} THEN Len(body) + 1 ELSE CHOOSE k \in dots : TRUE
             whole == SubSeq(body, 1, point - 1)
             frac == SubSeq(body, point + 1, Len(body))
             valid == /\ Cardinality(dots) <= 1
                      /\ whole \o frac # <<>>
                      /\ \A k \in DOMAIN body : body[k] \in Digit \cup {"."}
             scale == [k \in 0..3 |-> CASE k = 0 -> 1 [] k = 1 -> 10 [] k = 2 -> 100
                                        [] OTHER -> 1000]
             magnitude == Rat(DecimalValue(whole \o frac), scale[Len(frac)])
         IN  IF ~valid THEN Raised("ValueError")
             ELSE IF signed /\ t[1] = "-" THEN Returned(RatSub(RatInt(0), magnitude))
             ELSE Returned(magnitude)

\* rate_unit == "cm3/min" read as "the unit is per minute"
is_cm3_min_any_per_minute(rate_unit) == rate_unit \in {"cm3/min", "SCCM"}

\* report_data.rate_unit == "cm3/min"
is_cm3_min(rate_unit) == rate_unit = "cm3/min"

\* x * 60
Times60(x) == [x EXCEPT !.q = RatMul(@, RatInt(60))]

\* the Report as convert_he_to_air reads it: float(pressure_difference)
Floated(report) ==
    [test_medium |-> report.test_medium, rate_unit |-> report.rate_unit,
     pressure_difference |-> py_float(report.pressure_difference).val]

\* convert_he_to_air is called with this report and raises
ConvertRaises(report) ==
    report.test_medium = "Air" /\ py_float(report.pressure_difference).exc # "none"

\* one value on its way into the report: the factor of the unit, then the
\* conversion of the medium
Reported(report, x, average_temperature) ==
    LET y == IF is_cm3_min(report.rate_unit) THEN Times60(x) ELSE x
    IN  IF report.test_medium = "Air"
        THEN convert_he_to_air(Floated(report), y.q, average_temperature)
        ELSE y

\* the first loop over measurements_list, up to its n-th element; flag stays
\* True, and the loop is left at its first element, exactly when neither
\* branch applies, and then no element is changed
RECURSIVE measurements_loop(_, _, _)
measurements_loop(report, list, n) ==
    IF n = 0 THEN <<>>
    ELSE Append(measurements_loop(report, list, n - 1),
                [list[n] EXCEPT
                    !.max_value = Reported(report, @, list[n].average_temperature),
                    !.value_mbarl_second = Reported(report, @, list[n].average_temperature)])

\* copy.deepcopy handing out the repository's own objects
deepcopy_same_objects(list) == [objects |-> list, of_repository |-> TRUE]

\* copy.deepcopy(repository.get_all_measurements_data(leakware_id)): new
\* objects with the same values
deepcopy(list) == [objects |-> list, of_repository |-> FALSE]

\* the inner loop of load_data_from_database_pdf over the first n values of
\* one specimen; measurement is the variable the loops of create_pdf have left
\* behind, the last element of measurements_list
RECURSIVE converted_leak_rates(_, _, _, _)
converted_leak_rates(report, y_values, n, measurement) ==
    IF n = 0 THEN <<>>
    ELSE Append(converted_leak_rates(report, y_values, n - 1, measurement),
                Reported(report, Real(y_values[n]), measurement.average_temperature))

\* load_data_from_database_pdf: element_listy for the first n specimens
RECURSIVE element_listy(_, _, _, _)
element_listy(report, specimen_list, n, measurement) ==
    IF n = 0 THEN <<>>
    ELSE Append(element_listy(report, specimen_list, n - 1, measurement),
                converted_leak_rates(report, specimen_list[n], Len(specimen_list[n]),
                                     measurement))

\* the rows of df_list for the first n measurements
RECURSIVE df_list(_, _)
df_list(list, n) ==
    IF n = 0 THEN <<>>
    ELSE Append(df_list(list, n - 1),
                [value_mbarl_second |-> list[n].value_mbarl_second,
                 max_value |-> list[n].max_value])

NoPdf == [table |-> <<>>, graph |-> <<>>]
NoEntry == [medium |-> 0, rate_unit |-> "", pressure_difference |-> <<>>, graph_type |-> 0]
NoSavedReport ==
    [test_medium |-> "", note |-> <<>>, image |-> <<>>, pressure_difference |-> PyInt(0),
     rate_unit |-> "", graph_type |-> 0]

InitReport ==
    /\ rp_pc = "dialog"
    /\ rp_entry = NoEntry
    /\ rp_log = <<>>
    /\ n_reports = 0
    /\ rp_report = NoSavedReport
    /\ measurements \in MeasurementLists
    /\ measurements_before = measurements
    /\ specimens \in SpecimenLists
    /\ measurements_list = <<>>
    /\ rp_pdf = NoPdf

\* create_report is called again: a new dialog
CreateReportDialog ==
    /\ rp_pc = "destroyed"
    /\ n_reports < MaxReports
    /\ rp_pc' = "dialog"
    /\ rp_entry' = NoEntry
    /\ rp_log' = <<>>
    /\ UNCHANGED <<n_reports, rp_report, measurements, measurements_before, specimens,
                   measurements_list, rp_pdf, not_report_vars>>

\* create(), first part: the Report is built from the dialog and saved
CreateSavesReport ==
    /\ rp_pc \in {"dialog", "raised"}
    /\ n_reports < MaxReports
    /\ \E e \in DialogEntries :
        /\ rp_entry' = e
        /\ rp_report' =
              [test_medium |-> IF e.medium = 0 THEN "He" ELSE "Air",
               note |-> <<>>,
               image |-> <<>>,
               pressure_difference |-> IF e.pressure_difference = <<>> THEN PyInt(0)
                                       ELSE PyStr(e.pressure_difference),
               rate_unit |-> e.rate_unit,
               graph_type |-> e.graph_type]
    /\ n_reports' = n_reports + 1
    /\ rp_log' = <<"save_report_data">>
    /\ rp_pc' = "saved"
    /\ UNCHANGED <<measurements, measurements_before, specimens, measurements_list, rp_pdf,
                   not_report_vars>>

\* create(), second part: create_pdf with the saved Report, up to the end of
\* the first loop; an exception of convert_he_to_air leaves create_pdf and
\* create(), and the dialog stays
CreatePdfConverts ==
    /\ rp_pc = "saved"
    /\ IF ConvertRaises(rp_report)
       THEN /\ rp_pc' = "raised"
            /\ UNCHANGED <<measurements_list, measurements>>
       ELSE /\ rp_pc' = "converted"
            /\ \E copied \in {deepcopy(measurements)} :
                \E converted \in {measurements_loop(rp_report, copied.objects,
                                                    Len(copied.objects))} :
                    /\ measurements_list' = converted
                    /\ measurements' = IF copied.of_repository THEN converted
                                       ELSE measurements
    /\ UNCHANGED <<rp_entry, rp_log, n_reports, rp_report, measurements_before, specimens,
                   rp_pdf, not_report_vars>>

\* create_pdf from df_list on: the rows of the table, the values of the
\* graphs, and the file is written
CreatePdfOutputs ==
    /\ rp_pc = "converted"
    /\ rp_pdf' = [table |-> df_list(measurements_list, Len(measurements_list)),
                  graph |-> element_listy(rp_report, specimens, Len(specimens),
                                          measurements_list[Len(measurements_list)])]
    /\ measurements_list' = <<>>
    /\ rp_log' = Append(rp_log, "create_pdf")
    /\ rp_pc' = "pdf"
    /\ UNCHANGED <<rp_entry, n_reports, rp_report, measurements, measurements_before,
                   specimens, not_report_vars>>

\* create(), last part: report_root.after(0, ..destroy())
CreateDestroysDialog ==
    /\ rp_pc = "pdf"
    /\ rp_pc' = "destroyed"
    /\ rp_log' = Append(rp_log, "destroy")
    /\ UNCHANGED <<rp_entry, n_reports, rp_report, measurements, measurements_before,
                   specimens, measurements_list, rp_pdf, not_report_vars>>

NextReport ==
    \/ CreateReportDialog
    \/ CreateSavesReport
    \/ CreatePdfConverts
    \/ CreatePdfOutputs
    \/ CreateDestroysDialog

(***************************************************************************)
(* Settings.py: the text boxes, the four save functions, save_all_settings *)
(***************************************************************************)
COM(d) == <<"C", "O", "M", d>>

\* serial settings a user enters
Profiles ==
    {[baudrate |-> 9600, bytesize |-> 8, parity |-> <<"N">>, stopbits |-> 1],
     [baudrate |-> 19200, bytesize |-> 7, parity |-> <<"E">>, stopbits |-> 2]}

\* ports a user enters
SettingsPorts == {COM("3"), COM("5"), COM("7")}

\* tb_x.insert(1.0, str(config.x)): the five text boxes of one device
FieldsShown(config) ==
    [port |-> config.port,
     baudrate |-> DecimalText(config.baudrate),
     bytesize |-> DecimalText(config.bytesize),
     parity |-> config.parity,
     stopbits |-> DecimalText(config.stopbits)]

DeviceFields ==
    {FieldsShown([port |-> p, baudrate |-> f.baudrate, bytesize |-> f.bytesize,
                  parity |-> f.parity, stopbits |-> f.stopbits]) :
        p \in SettingsPorts, f \in Profiles}

EnteredFields == [DeviceNames -> DeviceFields]

\* the device configuration the settings window finds in the repository
DefaultPort(d) ==
    CASE d = "Leak Detector" -> COM("3")
      [] d = "Mass Flow Controller" -> COM("4")
      [] d = "Helium Analyzer" -> COM("5")
      [] OTHER -> COM("6")

InitialConfigs ==
    {[d \in DeviceNames |->
        [port |-> DefaultPort(d), baudrate |-> f[d].baudrate, bytesize |-> f[d].bytesize,
         parity |-> f[d].parity, stopbits |-> f[d].stopbits]] :
        f \in {g \in [DeviceNames -> Profiles] :
                  \A d \in DeviceNames \ {"Relay Switch"} : g[d].baudrate = 9600}}

\* the try block of a save function: the port opened and the commands went
\* through ("ok"), the helium analyzer opened but sent no line with He and O2
\* ("no_reply"), or an exception was raised ("fail")
OpenOutcomes ==
    {o \in [DeviceNames -> {"ok", "no_reply", "fail"}] :
        \A d \in DeviceNames : o[d] = "no_reply" => d = "Helium Analyzer"}

\* the five assignments at the head of a save function, from the text boxes
\* named there
Assigned(port_box, box) ==
    [port |-> Strip(port_box.port),
     baudrate |-> py_int(box.baudrate).val,
     bytesize |-> py_int(box.bytesize).val,
     parity |-> box.parity,
     stopbits |-> py_int(box.stopbits).val]

\* repository.update_device_info() at the end of a try block that went through
Updated(st, cfg, outcome) ==
    [cfg |-> cfg, db |-> IF outcome = "ok" THEN cfg ELSE st.db]

save_settings_leak_detector(st, tb, outcome) ==
    Updated(st, [st.cfg EXCEPT !["Leak Detector"] =
                    Assigned(tb["Leak Detector"], tb["Leak Detector"])], outcome)

save_settings_mass_flow_controller(st, tb, outcome) ==
    Updated(st, [st.cfg EXCEPT !["Mass Flow Controller"] =
                    Assigned(tb["Mass Flow Controller"], tb["Mass Flow Controller"])], outcome)

save_settings_helium_analyzer(st, tb, outcome) ==
    Updated(st, [st.cfg EXCEPT !["Helium Analyzer"] =
                    Assigned(tb["Helium Analyzer"], tb["Helium Analyzer"])], outcome)

\* the port is read from tb_port_relay, the other four from tb_baudrate,
\* tb_bytesize, tb_parity and tb_stopbits, the boxes of the leak detector
save_settings_relay_switch(st, tb, outcome) ==
    Updated(st, [st.cfg EXCEPT !["Relay Switch"] =
                    Assigned(tb["Relay Switch"], tb["Leak Detector"])], outcome)

NoError == [shown |-> FALSE, port |-> <<>>, first |-> "", second |-> ""]
error_page(port, first, second) ==
    [shown |-> TRUE, port |-> port, first |-> first, second |-> second]

\* the port check of save_all_settings, in the order of its if/elif chain
PortCheck(cfg, tb) ==
    LET leakware_port == Strip(tb["Leak Detector"].port)
        mass_flow_port == Strip(tb["Mass Flow Controller"].port)
        helium_analyzer_port == Strip(tb["Helium Analyzer"].port)
        relay_switch_port == Strip(tb["Relay Switch"].port)
    IN  IF leakware_port = cfg["Mass Flow Controller"].port
        THEN error_page(leakware_port, "Mass Flow Controller", "Leak Detector")
        ELSE IF leakware_port = cfg["Helium Analyzer"].port
        THEN error_page(leakware_port, "Helium Analyzer", "Leak Detector")
        ELSE IF mass_flow_port = cfg["Leak Detector"].port
        THEN error_page(mass_flow_port, "Leak Detector", "Mass Flow Controller")
        ELSE IF mass_flow_port = cfg["Helium Analyzer"].port
        THEN error_page(mass_flow_port, "Helium Analyzer", "Mass Flow Controller")
        ELSE IF helium_analyzer_port = cfg["Leak Detector"].port
        THEN error_page(helium_analyzer_port, "Leak Detector", "Helium Analyzer")
        ELSE IF helium_analyzer_port = cfg["Mass Flow Controller"].port
        THEN error_page(helium_analyzer_port, "Mass Flow Controller", "Relay Switch")
        ELSE IF relay_switch_port = cfg["Leak Detector"].port
        THEN error_page(relay_switch_port, "Leak Detector", "Helium Analyzer")
        ELSE IF relay_switch_port = cfg["Mass Flow Controller"].port
        THEN error_page(relay_switch_port, "Mass Flow Controller", "Helium Analyzer")
        ELSE NoError

\* the four calls that end save_all_settings
SaveFour(st, tb, o) ==
    save_settings_relay_switch(
        save_settings_helium_analyzer(
            save_settings_mass_flow_controller(
                save_settings_leak_detector(st, tb, o["Leak Detector"]),
                tb, o["Mass Flow Controller"]),
            tb, o["Helium Analyzer"]),
        tb, o["Relay Switch"])

InitSettings ==
    /\ st_pc = "open"
    /\ st_cfg \in InitialConfigs
    /\ st_db = st_cfg
    /\ st_tb = [d \in DeviceNames |-> FieldsShown(st_cfg[d])]
    /\ st_open = [d \in DeviceNames |-> "ok"]
    /\ st_error = NoError
    /\ st_before = [cfg |-> st_cfg, db |-> st_db]
    /\ st_serial = {}

\* the user fills in the text boxes
EnterFields ==
    /\ st_pc = "open"
    /\ st_tb' \in EnteredFields
    /\ st_pc' = "entered"
    /\ UNCHANGED <<st_cfg, st_db, st_open, st_error, st_before, st_serial, not_settings_vars>>

\* save_all_settings without the return statements after error_page
SaveAllSettings_no_return ==
    /\ st_pc \in {"open", "entered"}
    /\ st_before' = [cfg |-> st_cfg, db |-> st_db]
    /\ st_serial' = DeviceNames
    /\ \E o \in OpenOutcomes :
        /\ st_open' = o
        /\ st_error' = PortCheck(st_cfg, st_tb)
        /\ st_pc' = IF PortCheck(st_cfg, st_tb).shown THEN "rejected" ELSE "saved"
        /\ st_cfg' = SaveFour([cfg |-> st_cfg, db |-> st_db], st_tb, o).cfg
        /\ st_db' = SaveFour([cfg |-> st_cfg, db |-> st_db], st_tb, o).db
    /\ UNCHANGED <<st_tb, not_settings_vars>>

\* the Save all button
SaveAllSettings ==
    /\ st_pc \in {"open", "entered"}
    /\ st_before' = [cfg |-> st_cfg, db |-> st_db]
    /\ \E o \in OpenOutcomes :
        /\ st_open' = o
        /\ st_error' = PortCheck(st_cfg, st_tb)
        /\ IF PortCheck(st_cfg, st_tb).shown
           THEN /\ st_pc' = "rejected"
                /\ st_serial' = {}
                /\ UNCHANGED <<st_cfg, st_db>>
           ELSE /\ st_pc' = "saved"
                /\ st_serial' = DeviceNames
                /\ st_cfg' = SaveFour([cfg |-> st_cfg, db |-> st_db], st_tb, o).cfg
                /\ st_db' = SaveFour([cfg |-> st_cfg, db |-> st_db], st_tb, o).db
    /\ UNCHANGED <<st_tb, not_settings_vars>>

NextSettings ==
    \/ EnterFields
    \/ SaveAllSettings

(***************************************************************************)
(* HeliumLeakTestApp.py: the countdown of the start page and its buttons   *)
(***************************************************************************)
\* at most this many measurement sessions are started
MaxSessions == 1

\* the values get_power_on_time returns
PowerOnTimes ==
    {get_power_on_time(a, env).val : a \in BOOLEAN, env \in PowerEnvs}

\* f"{minutes:02}:{seconds:02}"
Pad2(k) == IF k < 10 THEN <<"0", DigitChar(k)>> ELSE DecimalText(k)
timer_text(seconds) == Pad2(seconds \div 60) \o <<":">> \o Pad2(seconds % 60)

\* the two buttons constructed without a state
ButtonState_normal == "normal"

\* state="disabled" in the constructors of quick_test and serious_of_measurement
ButtonState == "disabled"

InitTimer ==
    /\ tm_pc = "start"
    /\ leakDetector_available \in BOOLEAN
    /\ pw_pc = "done"
    /\ pw_env = NoPowerEnv
    /\ pw_result \in {Returned(t) : t \in PowerOnTimes}
    /\ remaining_time = (20 - pw_result.val) * 60
    /\ timer_label = <<>>
    /\ stop_count = 0
    /\ timer_frame = TRUE
    /\ message_frame = FALSE
    /\ quick_test = ButtonState
    /\ serious_of_measurement = ButtonState
    /\ mode = FALSE
    /\ sessions = 0

\* the body of stop_timer; the callback root.after(1000, update_timer) has
\* registered is left as it is
stop_timer ==
    /\ stop_count' = stop_count + 1
    /\ timer_frame' = FALSE
    /\ serious_of_measurement' = "normal"
    /\ quick_test' = "normal"
    /\ message_frame' = TRUE

\* update_timer taking a minute off per call
UpdateTimer_minutes ==
    /\ tm_pc \in {"start", "scheduled"}
    /\ IF remaining_time <= 0
       THEN /\ stop_timer
            /\ tm_pc' = "expired"
            /\ UNCHANGED <<remaining_time, timer_label>>
       ELSE /\ timer_label' = timer_text(remaining_time)
            /\ remaining_time' = remaining_time - 60
            /\ tm_pc' = "scheduled"
            /\ UNCHANGED <<stop_count, timer_frame, serious_of_measurement, quick_test,
                           message_frame>>
    /\ UNCHANGED <<mode, sessions, not_timer_vars>>

\* update_timer: the call at start-up, then the callback of root.after
UpdateTimer ==
    /\ tm_pc \in {"start", "scheduled"}
    /\ IF remaining_time <= 0
       THEN /\ stop_timer
            /\ tm_pc' = "expired"
            /\ UNCHANGED <<remaining_time, timer_label>>
       ELSE /\ timer_label' = timer_text(remaining_time)
            /\ remaining_time' = remaining_time - 1
            /\ tm_pc' = "scheduled"
            /\ UNCHANGED <<stop_count, timer_frame, serious_of_measurement, quick_test,
                           message_frame>>
    /\ UNCHANGED <<mode, sessions, not_timer_vars>>

\* the Manual Start button of timer_frame
ManualStart ==
    /\ tm_pc # "start"
    /\ timer_frame
    /\ stop_timer
    /\ UNCHANGED <<tm_pc, remaining_time, timer_label, mode, sessions, not_timer_vars>>

\* display_active_message, 5 seconds after stop_timer
DisplayActiveMessage ==
    /\ message_frame
    /\ message_frame' = FALSE
    /\ UNCHANGED <<tm_pc, remaining_time, timer_label, stop_count, timer_frame, quick_test,
                   serious_of_measurement, mode, sessions, not_timer_vars>>

\* the Quick Test button: main_application("PROFIL", "Quick Test")
QuickTest ==
    /\ tm_pc # "start"
    /\ quick_test = "normal"
    /\ sessions < MaxSessions
    /\ sessions' = sessions + 1
    /\ UNCHANGED <<tm_pc, remaining_time, timer_label, stop_count, timer_frame, message_frame,
                   quick_test, serious_of_measurement, mode, not_timer_vars>>

\* the Series of Measurements button: toggle_mode_measurement
ToggleModeMeasurement ==
    /\ tm_pc # "start"
    /\ serious_of_measurement = "normal"
    /\ mode' = ~mode
    /\ UNCHANGED <<tm_pc, remaining_time, timer_label, stop_count, timer_frame, message_frame,
                   quick_test, serious_of_measurement, sessions, not_timer_vars>>

\* the PEM and PROFIL buttons of the mode frame: main_application(.., "series
\* of Measurement")
ModeButton ==
    /\ tm_pc # "start"
    /\ mode
    /\ sessions < MaxSessions
    /\ sessions' = sessions + 1
    /\ UNCHANGED <<tm_pc, remaining_time, timer_label, stop_count, timer_frame, message_frame,
                   quick_test, serious_of_measurement, mode, not_timer_vars>>

NextTimer ==
    \/ UpdateTimer
    \/ ManualStart
    \/ DisplayActiveMessage
    \/ QuickTest
    \/ ToggleModeMeasurement
    \/ ModeButton

(***************************************************************************)
(* Settings.py: the relay toggle buttons of the settings window            *)
(***************************************************************************)
\* at most this many clicks on the toggle buttons
MaxClicks == 2

\* the relay names passed to set_relay_state, one per toggle button
RelayNames == {"Inficon", "Mass Flow Controller", "Helium Analyzer", "Helium Solenoid Valve"}

\* the index of relay_states assigned to each local at the head of settings()
StateIndex(b) ==
    CASE b = "Inficon" -> 1
      [] b = "Helium Solenoid Valve" -> 2
      [] b = "Helium Analyzer" -> 3
      [] OTHER -> 4

\* a name that has no binding, and a name bound to v
Unbound == [bound |-> FALSE, value |-> FALSE]
Bound(v) == [bound |-> TRUE, value |-> v]

\* settings() up to settings.mainloop(): relay_switch.connect, the four locals
\* and the four buttons, each constructed with image=on_image
InitRelay ==
    /\ rl_pc = "open"
    /\ relay_connected \in BOOLEAN
    /\ relay_states \in [1..4 -> BOOLEAN]
    /\ rl_local = [b \in RelayNames |->
                    IF relay_connected THEN Bound(relay_states[StateIndex(b)]) ELSE Unbound]
    /\ rl_global = [b \in RelayNames |-> Unbound]
    /\ rl_image = [b \in RelayNames |-> IF relay_connected THEN "on" ELSE "none"]
    /\ rl_relay = [b \in RelayNames |-> relay_states[StateIndex(b)]]
    /\ rl_clicks = <<>>

\* the body shared by the four toggle functions: "global <name>", then the
\* test of the global, which raises NameError while the module has no such name
toggle_button(b) ==
    /\ rl_pc = "open"
    /\ Len(rl_clicks) < MaxClicks
    /\ IF ~rl_global[b].bound
       THEN /\ rl_clicks' = Append(rl_clicks, [button |-> b, exc |-> "NameError"])
            /\ UNCHANGED <<rl_global, rl_image, rl_relay>>
       ELSE /\ rl_relay' = [rl_relay EXCEPT ![b] = ~rl_global[b].value]
            /\ rl_image' = [rl_image EXCEPT ![b] = IF rl_global[b].value THEN "off" ELSE "on"]
            /\ rl_global' = [rl_global EXCEPT ![b] = Bound(~rl_global[b].value)]
            /\ rl_clicks' = Append(rl_clicks, [button |-> b, exc |-> "none"])
    /\ UNCHANGED <<rl_pc, relay_connected, relay_states, rl_local, not_relay_vars>>

\* the commands of the four buttons, which exist when the relay is connected
toggle_inficon_button ==
    /\ relay_connected
    /\ toggle_button("Inficon")

toggle_mass_flow_button ==
    /\ relay_connected
    /\ toggle_button("Mass Flow Controller")

toggle_helium_button ==
    /\ relay_connected
    /\ toggle_button("Helium Analyzer")

toggle_helium_solenoid_button ==
    /\ relay_connected
    /\ toggle_button("Helium Solenoid Valve")

NextRelay ==
    \/ toggle_inficon_button
    \/ toggle_mass_flow_button
    \/ toggle_helium_button
    \/ toggle_helium_solenoid_button

(***************************************************************************)
(* compare_graph.py: the comparison windows                                *)
(***************************************************************************)
\* at most this many comparison windows are opened
MaxWindows == 2

\* the sessions compare() is called for
LeakwareIds == {1, 2}

\* Specimen records of the repository; x_value and y_value hold JSON text
SpecimenA ==
    [x_value |-> <<"[", "0", ",", "1", ",", "2", "]">>,
     y_value |-> <<"[", "3", ",", "4", ",", "5", "]">>]
SpecimenB ==
    [x_value |-> <<"[", "0", ",", "1", "]">>,
     y_value |-> <<"[", "7", ",", "8", "]">>]

\* what repository.get_all_specimens returns for each session
CompareDbs == [LeakwareIds -> {<<>>, <<SpecimenB>>, <<SpecimenA, SpecimenB>>}]

\* json.loads of the text of a list of one-digit numbers
json_loads(text) == [k \in 1..((Len(text) - 1) \div 2) |-> DigitValue(text[2 * k])]

\* the two lists load_data_from_database builds from the specimens of a session
RECURSIVE loaded_values(_, _)
loaded_values(found, n) ==
    IF n = 0 THEN [x |-> <<>>, y |-> <<>>]
    ELSE [x |-> Append(loaded_values(found, n - 1).x, json_loads(found[n].x_value)),
          y |-> Append(loaded_values(found, n - 1).y, json_loads(found[n].y_value))]

load_data_from_database(db, leakware_id) ==
    loaded_values(db[leakware_id], Len(db[leakware_id]))

\* "specimen " and f"specimen {i+1}"
SpecimenText == <<"s", "p", "e", "c", "i", "m", "e", "n", " ">>
checkbox_text(i) == SpecimenText \o DecimalText(i + 1)

\* list[:-1]
ButLast(list) == SubSeq(list, 1, Len(list) - 1)

\* the loop of comparison_graph over the first n elements of element_listy: i
\* is the index at the head of the loop body, the label is built after i += 1
RECURSIVE plot_lines(_, _, _, _)
plot_lines(listx, listy, selected_index, n) ==
    IF n = 0 THEN <<>>
    ELSE LET i == n - 1
         IN  IF i \in selected_index
             THEN Append(plot_lines(listx, listy, selected_index, n - 1),
                         [x |-> ButLast(listx[i + 1]),
                          y |-> ButLast(listy[i + 1]),
                          label |-> SpecimenText \o DecimalText(i + 1)])
             ELSE plot_lines(listx, listy, selected_index, n - 1)

\* the lines comparison_graph draws in the frame it is given
comparison_graph(listx, listy, selected_index) ==
    plot_lines(listx, listy, selected_index, Len(listy))

\* the BooleanVar objects create_checkboxes makes for window w, by reference
create_checkboxes(listx, w) == [i \in 1..Len(listx) |-> <<w, i>>]

\* checkbox.get() of a BooleanVar
Get(windows, var) == windows[var[1]].vars[var[2]]

\* selected_index of on_checkbox_change: every index of element_listx, less
\* the indices of the unchecked entries of the global checkboxes
selected_indices(listx, boxes, windows) ==
    {i \in 0..(Len(listx) - 1) : ~(i < Len(boxes) /\ ~Get(windows, boxes[i + 1]))}

\* selected_index.remove(index) for an index that is not in the list
RemoveRaises(listx, boxes, windows) ==
    \E index \in 0..(Len(boxes) - 1) :
        ~Get(windows, boxes[index + 1]) /\ index >= Len(listx)

InitCompare ==
    /\ cg_db \in CompareDbs
    /\ cg_element_listx = <<>>
    /\ cg_element_listy = <<>>
    /\ checkboxes = <<>>
    /\ cg_windows = <<>>

\* compare(leakware_id, ..): load, plot every specimen, create the checkboxes
compare ==
    /\ Len(cg_windows) < MaxWindows
    /\ \E leakware_id \in LeakwareIds :
       \E loaded \in {load_data_from_database(cg_db, leakware_id)} :
          /\ cg_element_listx' = loaded.x
          /\ cg_element_listy' = loaded.y
          /\ checkboxes' = create_checkboxes(loaded.x, Len(cg_windows) + 1)
          /\ cg_windows' = Append(cg_windows,
                [leakware_id |-> leakware_id,
                 vars |-> [i \in 1..Len(loaded.x) |-> TRUE],
                 labels |-> [i \in 1..Len(loaded.x) |-> checkbox_text(i - 1)],
                 plot |-> comparison_graph(loaded.x, loaded.y, 0..(Len(loaded.x) - 1))])
    /\ UNCHANGED <<cg_db, not_compare_vars>>

\* a click on checkbox i of window w: Tk flips its BooleanVar and runs the
\* command, on_checkbox_change(compare_chart_frame) with the frame of window w
on_checkbox_change ==
    /\ \E w \in 1..Len(cg_windows) :
       \E i \in 1..Len(cg_windows[w].vars) :
       \E flipped \in {[cg_windows EXCEPT ![w].vars[i] = ~@]} :
          IF RemoveRaises(cg_element_listx, checkboxes, flipped)
          THEN cg_windows' = flipped
          ELSE cg_windows' =
                [flipped EXCEPT ![w].plot =
                    comparison_graph(cg_element_listx, cg_element_listy,
                        selected_indices(cg_element_listx, checkboxes, flipped))]
    /\ UNCHANGED <<cg_db, cg_element_listx, cg_element_listy, checkboxes, not_compare_vars>>

NextCompare ==
    \/ compare
    \/ on_checkbox_change

(***************************************************************************)
(* Specifications                                                          *)
(***************************************************************************)
\* read_data_from_helium has not been called
IdleHelium ==
    /\ h_pc = "idle"
    /\ h_port = ""
    /\ h_opened = FALSE
    /\ h_depth = 0
    /\ h_record = ExampleRecord
    /\ h_data = <<>>
    /\ h_parsed = None
    /\ h_event = "none"
    /\ h_ret = None
    /\ h_shown = {}

\* no report has been requested
IdlePdf == InitPdf

\* get_power_on_time has not been called
IdlePower ==
    /\ leakDetector_available = FALSE
    /\ pw_pc = "idle"
    /\ pw_env = NoPowerEnv
    /\ pw_result = Returned(0)

\* no scan has been run
IdleScan == InitScan

\* the settings window has not been opened
IdleSettings ==
    /\ st_pc = "closed"
    /\ st_tb = [d \in DeviceNames |-> FieldsShown(
                    [port |-> DefaultPort(d), baudrate |-> 9600, bytesize |-> 8,
                     parity |-> <<"N">>, stopbits |-> 1])]
    /\ st_cfg = [d \in DeviceNames |->
                    [port |-> DefaultPort(d), baudrate |-> 9600, bytesize |-> 8,
                     parity |-> <<"N">>, stopbits |-> 1]]
    /\ st_db = st_cfg
    /\ st_open = [d \in DeviceNames |-> "ok"]
    /\ st_error = NoError
    /\ st_before = [cfg |-> st_cfg, db |-> st_db]
    /\ st_serial = {}

\* the report dialog has not been opened
IdleReport ==
    /\ rp_pc = "off"
    /\ rp_entry = NoEntry
    /\ rp_log = <<>>
    /\ n_reports = 0
    /\ rp_report = NoSavedReport
    /\ measurements = <<>>
    /\ measurements_before = <<>>
    /\ specimens = <<>>
    /\ measurements_list = <<>>
    /\ rp_pdf = NoPdf

\* the settings window with the relay buttons has not been built
IdleRelay ==
    /\ rl_pc = "closed"
    /\ relay_connected = FALSE
    /\ relay_states = [i \in 1..4 |-> FALSE]
    /\ rl_local = [b \in RelayNames |-> Unbound]
    /\ rl_global = [b \in RelayNames |-> Unbound]
    /\ rl_image = [b \in RelayNames |-> "none"]
    /\ rl_relay = [b \in RelayNames |-> FALSE]
    /\ rl_clicks = <<>>

\* no comparison window has been opened
IdleCompare ==
    /\ cg_db = [id \in LeakwareIds |-> <<>>]
    /\ cg_element_listx = <<>>
    /\ cg_element_listy = <<>>
    /\ checkboxes = <<>>
    /\ cg_windows = <<>>

\* the start page has not been built
IdleTimer ==
    /\ tm_pc = "off"
    /\ remaining_time = 0
    /\ timer_label = <<>>
    /\ stop_count = 0
    /\ timer_frame = FALSE
    /\ message_frame = FALSE
    /\ quick_test = ButtonState
    /\ serious_of_measurement = ButtonState
    /\ mode = FALSE
    /\ sessions = 0

InitSpecHelium ==
    /\ InitHelium
    /\ IdlePdf
    /\ IdlePower
    /\ IdleScan
    /\ IdleSettings
    /\ IdleTimer
    /\ IdleReport
    /\ IdleRelay
    /\ IdleCompare

InitSpecPdf ==
    /\ InitPdf
    /\ IdleHelium
    /\ IdlePower
    /\ IdleScan
    /\ IdleSettings
    /\ IdleTimer
    /\ IdleReport
    /\ IdleRelay
    /\ IdleCompare

InitSpecPower ==
    /\ InitPower
    /\ IdleHelium
    /\ IdlePdf
    /\ IdleScan
    /\ IdleSettings
    /\ IdleTimer
    /\ IdleReport
    /\ IdleRelay
    /\ IdleCompare

InitSpecScan ==
    /\ InitScan
    /\ IdleHelium
    /\ IdlePdf
    /\ IdlePower
    /\ IdleSettings
    /\ IdleTimer
    /\ IdleReport
    /\ IdleRelay
    /\ IdleCompare

SpecHelium == InitSpecHelium /\ [][NextHelium]_vars

SpecPdf == InitSpecPdf /\ [][NextPdf]_vars

SpecPower == InitSpecPower /\ [][NextPower]_vars

SpecScan == InitSpecScan /\ [][NextScan]_vars

InitSpecSettings ==
    /\ InitSettings
    /\ IdleHelium
    /\ IdlePdf
    /\ IdlePower
    /\ IdleScan
    /\ IdleTimer
    /\ IdleReport
    /\ IdleRelay
    /\ IdleCompare

SpecSettings == InitSpecSettings /\ [][NextSettings]_vars

InitSpecTimer ==
    /\ InitTimer
    /\ IdleHelium
    /\ IdlePdf
    /\ IdleScan
    /\ IdleSettings
    /\ IdleReport
    /\ IdleRelay
    /\ IdleCompare

SpecTimer == InitSpecTimer /\ [][NextTimer]_vars

InitSpecReport ==
    /\ InitReport
    /\ IdleHelium
    /\ IdlePdf
    /\ IdlePower
    /\ IdleScan
    /\ IdleSettings
    /\ IdleTimer
    /\ IdleRelay
    /\ IdleCompare

SpecReport == InitSpecReport /\ [][NextReport]_vars

InitSpecRelay ==
    /\ InitRelay
    /\ IdleHelium
    /\ IdlePdf
    /\ IdlePower
    /\ IdleScan
    /\ IdleSettings
    /\ IdleTimer
    /\ IdleReport
    /\ IdleCompare

SpecRelay == InitSpecRelay /\ [][NextRelay]_vars

InitSpecCompare ==
    /\ InitCompare
    /\ IdleHelium
    /\ IdlePdf
    /\ IdlePower
    /\ IdleScan
    /\ IdleSettings
    /\ IdleTimer
    /\ IdleReport
    /\ IdleRelay

SpecCompare == InitSpecCompare /\ [][NextCompare]_vars

\* the Tk event loop runs the callback root.after has registered
SpecTimerFair == SpecTimer /\ WF_vars(UpdateTimer)

(***************************************************************************)
(* Properties of helium.py                                                 *)
(***************************************************************************)

\* C1: for every line that contains a well-formed analyzer record, parse_data
\* returns the decimal number that follows "He", as a string.
C1_ParseWellFormed ==
    (h_event = "data" /\ WellFormed(h_record))
        => h_parsed = PyStr(HeVariants[h_record.he].num)

\* the documented example line has been read and parsed to "23.5"
C1_Witness ==
    /\ h_event = "data"
    /\ h_record = ExampleRecord
    /\ Len(h_data) = 58
    /\ h_parsed = PyStr(<<"2", "3", ".", "5">>)

\* C2: for every line that is not a well-formed analyzer record (a field
\* missing, a percentage without a decimal point, a wrongly formatted date or
\* time, an empty line), parse_data returns None.
C2_ParseMalformed ==
    (h_event = "data" /\ ~WellFormed(h_record)) => h_parsed = None

\* a line whose only defect is the date format has been parsed to None
C2_Witness ==
    /\ h_event = "data"
    /\ h_record = [ExampleRecord EXCEPT !.date = 2]
    /\ h_parsed = None

\* C6: read_from_serial returns the parsed value of the line it reads whenever
\* data becomes available and no serial error occurs, at the first poll or at
\* a later one.
C6_ReadReturnsParsed ==
    h_event = "data" => h_ret = h_parsed

\* C7: a SerialException while reading shows the "disconnected" error and the
\* read returns 0; a failure to open shows "Failed to open"; without a
\* configured port a warning is shown and no port is opened.
C7_SerialFailureHandled ==
    /\ h_event = "serial_error" => (MsgDisconnected \in h_shown /\ h_ret = PyInt(0))
    /\ h_event = "open_error" => MsgFailedOpen \in h_shown
    /\ h_event = "no_port" => (MsgNoPort \in h_shown /\ ~h_opened)

(***************************************************************************)
(* Properties of create_pdf.py                                             *)
(***************************************************************************)
ViscosityScaled(he_leak_rate) == RatMul(he_leak_rate, RatDiv(ETA_HE, ETA_AIR))

\* C3 as stated: whenever the pressure difference is 0, convert_he_to_air
\* returns he_leak_rate * (ETA_HE / ETA_AIR), for every leak rate, every
\* average temperature and every rate unit.
C3_ViscosityScalingEveryUnit ==
    (p_last.made /\ p_last.pressure_difference = RatInt(0))
        => p_last.air_leakrate = Real(ViscosityScaled(p_last.he_leak_rate))

\* C3 (amended): whenever the pressure difference is 0, convert_he_to_air
\* returns he_leak_rate * (ETA_HE / ETA_AIR) for every rate unit other than
\* SCCM; for SCCM that value is further multiplied by 60 and by
\* sqrt(average_temperature / T1).
C3_ViscosityScaling ==
    (p_last.made /\ p_last.pressure_difference = RatInt(0))
        => p_last.air_leakrate =
              IF p_last.rate_unit = "SCCM"
              THEN ScaleSqrt(Real(RatMul(ViscosityScaled(p_last.he_leak_rate), RatInt(60))),
                             RatDiv(p_last.average_temperature, T1))
              ELSE Real(ViscosityScaled(p_last.he_leak_rate))

\* 0.03 has been converted under pressure difference 0 and unit cm3/min:
\* 0.03 * 19.6 / 18.19 = 294/9095
C3_Witness ==
    /\ p_last.made
    /\ p_last.pressure_difference = RatInt(0)
    /\ p_last.rate_unit = "cm3/min"
    /\ p_last.he_leak_rate = Rat(3, 100)
    /\ p_last.air_leakrate = Real(Rat(294, 9095))

DirectionLabel ==
    [c \in {"0", "1", "2", "3", "4", "5"} |->
        CASE c = "0" -> "Nut facing upwards"
          [] c = "1" -> "Nut facing downwards"
          [] c = "2" -> "Capnut facing upwards"
          [] c = "3" -> "Capnut facing downwards"
          [] c = "4" -> "Bolt facing upwards"
          [] c = "5" -> "Bolt facing downwards"]

\* C5: get_elem_direction_value returns the documented label for the string
\* codes "0" to "5" and the empty string for every other input.
C5_DirectionLabels ==
    /\ \A c \in DOMAIN DirectionLabel : p_direction = PyStr(<<c>>) => p_elem = DirectionLabel[c]
    /\ (\A c \in DOMAIN DirectionLabel : p_direction # PyStr(<<c>>)) => p_elem = ""

\* the code "3" has been looked up
C5_Witness ==
    /\ p_direction = PyStr(<<"3">>)
    /\ p_elem = "Capnut facing downwards"

(***************************************************************************)
(* Properties of get_power_on_time                                         *)
(***************************************************************************)

Recorded(i) == [port |-> PortDevice(i), is_available |-> TRUE]

\* C9: in the second loop a port with vendor id 1240 is recorded as the Leak
\* Detector's port and the Leak Detector is marked available; one with 42496
\* likewise for the Helium Analyzer; one with 1027 for the Mass Flow
\* Controller if and only if the stop command was answered with OK; any other
\* port changes no device configuration, in either loop.
C9_ScanClassifies ==
    [][/\ (sc_pc = "classify" /\ sc_i <= Len(ports) /\ sc_i' = sc_i + 1)
            => devcfg' =
                 IF ports[sc_i].vid = PyInt(1240)
                 THEN [devcfg EXCEPT !["Leak Detector"] = Recorded(sc_i)]
                 ELSE IF ports[sc_i].vid = PyInt(42496)
                 THEN [devcfg EXCEPT !["Helium Analyzer"] = Recorded(sc_i)]
                 ELSE IF /\ ports[sc_i].vid = PyInt(1027)
                         /\ ~ports[sc_i].stop_exc
                         /\ ports[sc_i].stop_reply = ReplyOK
                 THEN [devcfg EXCEPT !["Mass Flow Controller"] = Recorded(sc_i)]
                 ELSE devcfg
       /\ (sc_pc = "relay" /\ sc_i <= Len(ports) /\ ports[sc_i].vid # PyInt(1027))
            => devcfg' = devcfg
      ]_vars

\* a scan of a leak detector on COM3, a mass flow controller on COM4 that
\* answered OK has ended
C9_Witness ==
    /\ sc_pc = "done"
    /\ Len(ports) = 2
    /\ ports[1].vid = PyInt(1240)
    /\ ports[2].vid = PyInt(1027)
    /\ devcfg["Leak Detector"] = [port |-> <<"C", "O", "M", "3">>, is_available |-> TRUE]
    /\ devcfg["Mass Flow Controller"] = [port |-> <<"C", "O", "M", "4">>, is_available |-> TRUE]
    /\ devcfg["Helium Analyzer"] = Unset

\* C10: in every scan in which a port has vendor id 1027 and a relay switch
\* connects on it, the relay switch is recorded with that port and marked
\* available, turn_on_devices is invoked and the 10 second wait elapses, all
\* before any other device is classified.
C10_RelayBeforeClassification ==
    (sc_pc = "classify" /\ \E i \in DOMAIN ports : ports[i].vid = PyInt(1027) /\ ports[i].relay)
        => /\ \E i \in DOMAIN ports :
                /\ ports[i].vid = PyInt(1027)
                /\ ports[i].relay
                /\ devcfg["Relay Switch"] = Recorded(i)
           /\ turned_on
           /\ waited

\* C11: every call of stop_gas_flow returns, and returns True exactly when the
\* device answered the stop command with OK; any other reply or a
\* SerialException gives False, no exception leaves the call, and the scan goes
\* on with the next port.
C11_StopGasFlowNeverPropagates ==
    /\ sc_pc # "raised"
    /\ stop_call.made
         => /\ stop_call.result.exc = "none"
            /\ stop_call.result.val
                 <=> (~stop_call.port.stop_exc /\ stop_call.port.stop_reply = ReplyOK)

\* the devices a port of the scan stands for
PortMatches(d, port) ==
    CASE d = "Leak Detector" -> port.vid = PyInt(1240)
      [] d = "Helium Analyzer" -> port.vid = PyInt(42496)
      [] d = "Mass Flow Controller" ->
            port.vid = PyInt(1027) /\ ~port.stop_exc /\ port.stop_reply = ReplyOK
      [] OTHER -> FALSE

\* C12: when a scan has ended, a leak detector, helium analyzer or mass flow
\* controller is marked available, in the configuration and in the updated
\* device information, only if one of the ports of that scan matched it.
C12_AvailableOnlyIfDetected ==
    sc_pc = "done"
        => \A d \in {"Leak Detector", "Helium Analyzer", "Mass Flow Controller"} :
                (devcfg[d].is_available \/ db_devcfg[d].is_available)
                    => \E i \in DOMAIN ports : PortMatches(d, ports[i])

\* C13: after a Save all that passed the port check and in which every device
\* port opened, the configuration of each of the four devices holds the port,
\* baud rate, byte size, parity and stop bits entered in that device's own
\* text boxes.
C13_SaveAllKeepsOwnFields ==
    (st_pc = "saved" /\ \A d \in DeviceNames : st_open[d] # "fail")
        => \A d \in DeviceNames :
            /\ st_cfg[d].port = st_tb[d].port
            /\ DecimalText(st_cfg[d].baudrate) = st_tb[d].baudrate
            /\ DecimalText(st_cfg[d].bytesize) = st_tb[d].bytesize
            /\ st_cfg[d].parity = st_tb[d].parity
            /\ DecimalText(st_cfg[d].stopbits) = st_tb[d].stopbits

\* the pressure-difference term of a report: ((pd + 1)^2 - PB2^2) / (PA1^2 - PA2^2)
DeltaP(pd) ==
    RatDiv(RatSub(RatMul(RatAdd(pd, RatInt(1)), RatAdd(pd, RatInt(1))), RatInt(1)),
           RatSub(RatInt(1), RatInt(0)))

\* C17 as stated: for every report with medium Air and a pressure difference
\* other than 0, the result of convert_he_to_air before the unit is handled is
\* he_leak_rate * (ETA_HE / ETA_AIR) * delta_p.
C17_PressureTermForNonZero ==
    (p_last.made /\ report_data.test_medium = "Air" /\ p_last.pressure_difference # RatInt(0))
        => p_last.before_unit =
              RatMul(ViscosityScaled(p_last.he_leak_rate), DeltaP(p_last.pressure_difference))

\* C17 (amended): for every report with medium Air, the result of
\* convert_he_to_air before the unit is handled is he_leak_rate *
\* (ETA_HE / ETA_AIR) * delta_p when delta_p > 0 (pressure difference above 0
\* or below -2), and he_leak_rate * (ETA_HE / ETA_AIR) when delta_p <= 0.
C17_PressureTermWhenPositive ==
    (p_last.made /\ report_data.test_medium = "Air")
        => p_last.before_unit =
              IF RatGt(DeltaP(p_last.pressure_difference), RatInt(0))
              THEN RatMul(ViscosityScaled(p_last.he_leak_rate),
                          DeltaP(p_last.pressure_difference))
              ELSE ViscosityScaled(p_last.he_leak_rate)

\* 0.03 has been converted for an Air report with pressure difference 0.5,
\* where delta_p = 1.25: 0.03 * 19.6 / 18.19 * 1.25 = 147/3638
C17_Witness ==
    /\ p_last.made
    /\ report_data.test_medium = "Air"
    /\ p_last.he_leak_rate = Rat(3, 100)
    /\ p_last.pressure_difference = Rat(1, 2)
    /\ p_last.before_unit = Rat(147, 3638)

\* C14: every activation of Create Report saves exactly one Report record,
\* then generates the PDF exactly once from it, then closes the dialog, in
\* that order; an empty pressure-difference box is stored as 0.
C14_SaveThenPdfThenClose ==
    /\ rp_pc \in {"destroyed", "raised"}
         => rp_log = <<"save_report_data", "create_pdf", "destroy">>
    /\ (rp_pc \in {"saved", "converted", "pdf", "destroyed", "raised"}
            /\ rp_entry.pressure_difference = <<>>)
         => rp_report.pressure_difference = PyInt(0)

\* the number a pressure-difference text stands for
PressureOf(text) ==
    CASE text = <<>> -> RatInt(0)
      [] text = <<"0", ".", "5">> -> Rat(1, 2)
      [] text = <<"-", "0", ".", "5">> -> Rat(-1, 2)
      [] text = <<"1">> -> RatInt(1)

\* a stored value as the report shows it apart from the factor of the time
\* unit: unchanged for Helium; for Air scaled by the viscosity ratio, by the
\* pressure-difference term when that is positive and, for SCCM, by
\* sqrt(average_temperature / 273)
WithoutTimeFactor(x, average_temperature) ==
    IF rp_report.test_medium = "He" THEN x
    ELSE IF rp_report.rate_unit = "SCCM"
    THEN ScaleSqrt(Real(IF RatGt(DeltaP(PressureOf(rp_entry.pressure_difference)), RatInt(0))
                        THEN RatMul(ViscosityScaled(x.q),
                                    DeltaP(PressureOf(rp_entry.pressure_difference)))
                        ELSE ViscosityScaled(x.q)),
                   Rat(average_temperature.n, 273 * average_temperature.d))
    ELSE Real(IF RatGt(DeltaP(PressureOf(rp_entry.pressure_difference)), RatInt(0))
              THEN RatMul(ViscosityScaled(x.q),
                          DeltaP(PressureOf(rp_entry.pressure_difference)))
              ELSE ViscosityScaled(x.q))

\* that value with the factor 60 exactly once for the units per minute, and
\* without it for Mbar*L/s
ExpectedInReport(x, average_temperature) ==
    IF rp_report.rate_unit \in {"cm3/min", "SCCM"}
    THEN [q |-> RatMul(RatInt(60), WithoutTimeFactor(x, average_temperature).q),
          rad |-> WithoutTimeFactor(x, average_temperature).rad]
    ELSE WithoutTimeFactor(x, average_temperature)

\* C15: in every generated report whose rate unit is cm3/min or SCCM, each
\* value of the table and each graphed specimen value holds the factor 60
\* exactly once, for Helium and for Air; for Mbar*L/s no factor 60 is applied.
C15_FactorSixtyOnce ==
    rp_pc \in {"pdf", "destroyed"}
        => /\ \A i \in DOMAIN rp_pdf.table :
                /\ rp_pdf.table[i].value_mbarl_second =
                      ExpectedInReport(measurements_before[i].value_mbarl_second,
                                       measurements_before[i].average_temperature)
                /\ rp_pdf.table[i].max_value =
                      ExpectedInReport(measurements_before[i].max_value,
                                       measurements_before[i].average_temperature)
           /\ \A j \in DOMAIN rp_pdf.graph : \A k \in DOMAIN rp_pdf.graph[j] :
                rp_pdf.graph[j][k] =
                    ExpectedInReport(
                        Real(specimens[j][k]),
                        measurements_before[Len(measurements_before)].average_temperature)

\* an SCCM report of a session whose first measurement is 0.03 at 273 K has
\* been generated, with specimen values: 0.03 * 19.6 / 18.19 * 60 = 3528/1819
C15_Witness ==
    /\ rp_pc = "pdf"
    /\ rp_report.rate_unit = "SCCM"
    /\ rp_entry.pressure_difference = <<>>
    /\ measurements_before[1].value_mbarl_second = Real(Rat(3, 100))
    /\ rp_pdf.table[1].value_mbarl_second = Real(Rat(3528, 1819))
    /\ Len(rp_pdf.graph) = 1

\* C16: generating reports never changes the stored measurements: whatever
\* reports have been generated, the repository holds for the session the
\* values it held before.
C16_StoredMeasurementsUnchanged ==
    /\ measurements = measurements_before
    /\ rp_pc = "converted" => Len(measurements_list) = Len(measurements)

\* two reports have been generated, the second in cm3/min, whose table shows
\* 60 times the stored value 0.001
C16_Witness ==
    /\ rp_pc = "destroyed"
    /\ n_reports = 2
    /\ rp_report.test_medium = "He"
    /\ rp_report.rate_unit = "cm3/min"
    /\ measurements[1].value_mbarl_second = Real(Rat(1, 1000))
    /\ rp_pdf.table[1].value_mbarl_second = Real(Rat(3, 50))

\* C18: the countdown starts at (20 - power_on_time) * 60 seconds, every
\* change of it is a decrease by exactly 1, and update_timer eventually finds
\* it at zero or less and invokes stop_timer, not before; when the start value
\* is zero or negative this happens on the first update and no remaining time
\* has been displayed.
C18_CountdownReachesStopTimer ==
    /\ [](tm_pc = "start" => remaining_time = (20 - pw_result.val) * 60)
    /\ [][remaining_time' # remaining_time => remaining_time' = remaining_time - 1]_vars
    /\ [][(tm_pc # "expired" /\ tm_pc' = "expired")
            => (remaining_time <= 0 /\ stop_count' = stop_count + 1)]_vars
    /\ <>(tm_pc = "expired")
    /\ []((tm_pc = "expired" /\ (20 - pw_result.val) * 60 <= 0) => timer_label = <<>>)

\* with a power-on time of 19 the countdown has run from 60 to 0, last showing
\* 00:01, and update_timer has invoked stop_timer
C18_Witness ==
    /\ tm_pc = "expired"
    /\ pw_result.val = 19
    /\ remaining_time = 0
    /\ timer_label = <<"0", "0", ":", "0", "1">>
    /\ stop_count = 1

\* C19: once stop_timer has run, through Manual Start or through expiry, the
\* countdown does not tick again and stop_timer does not run again.
C19_StopTimerStopsTimer ==
    [][stop_count > 0 => (remaining_time' = remaining_time /\ stop_count' = stop_count)]_vars

\* C20: before stop_timer has run, Quick Test and Series of Measurements are
\* disabled, the frame with the mode buttons is not shown and no measurement
\* session has been started; once stop_timer has run both buttons are enabled
\* in every later state.
C20_ButtonsFollowStopTimer ==
    /\ stop_count = 0
         => /\ quick_test = "disabled"
            /\ serious_of_measurement = "disabled"
            /\ ~mode
            /\ sessions = 0
    /\ stop_count > 0
         => /\ quick_test = "normal"
            /\ serious_of_measurement = "normal"

\* Manual Start has been pressed with 10 minutes left on the clock and a
\* session has been started from the mode frame
C20_Witness ==
    /\ stop_count = 1
    /\ tm_pc = "scheduled"
    /\ remaining_time = 600
    /\ mode
    /\ sessions = 1

(***************************************************************************)
(* Properties of Settings.py: the port check of Save all                   *)
(***************************************************************************)

\* C23: after a Save all that passed the port check and saved, no two of the
\* four devices are configured with the same port.
C23_SavedPortsDistinct ==
    st_pc = "saved" =>
        \A d1 \in DeviceNames : \A d2 \in DeviceNames \ {d1} :
            st_cfg[d1].port # st_cfg[d2].port

\* C24: when Save all finds a port conflict it shows the error page and
\* returns before any save function runs: the configuration objects and the
\* persisted configuration are as they were and no serial port is opened.
C24_ConflictChangesNothing ==
    st_pc = "rejected" =>
        /\ st_error.shown
        /\ st_cfg = st_before.cfg
        /\ st_db = st_before.db
        /\ st_serial = {}

\* a conflict found for entries that differ from the stored configuration
C24_Witness ==
    /\ st_pc = "rejected"
    /\ st_error = error_page(COM("5"), "Helium Analyzer", "Leak Detector")
    /\ st_tb["Leak Detector"].baudrate = DecimalText(19200)
    /\ st_before.cfg["Leak Detector"].baudrate = 9600
    /\ st_open["Leak Detector"] = "ok"

\* C25: a device whose serial port could not be opened while its settings
\* were saved keeps, in the repository, the configuration it had before.
C25_FailedOpenKeepsConfiguration ==
    st_pc = "saved" =>
        \A d \in DeviceNames :
            st_open[d] = "fail" => st_db[d] = st_before.db[d]

(***************************************************************************)
(* Properties of Settings.py: the relay toggle buttons                     *)
(***************************************************************************)

\* C26: for each of the four toggle buttons the tracked state starts at the
\* state the relay reported at connect, and every click commands the relay to
\* the opposite of the tracked state and flips the tracked state and the
\* button image.
C26_ClickTogglesRelay ==
    [][\A b \in RelayNames :
          /\ rl_clicks = <<>> /\ relay_connected
                => rl_global[b] = Bound(relay_states[StateIndex(b)])
          /\ (Len(rl_clicks') = Len(rl_clicks) + 1 /\ rl_clicks'[Len(rl_clicks')].button = b)
                => /\ rl_global[b].bound
                   /\ rl_relay'[b] = ~rl_global[b].value
                   /\ rl_global'[b] = Bound(~rl_global[b].value)
                   /\ rl_image'[b] # rl_image[b]]_vars

(***************************************************************************)
(* Properties of compare_graph.py                                          *)
(***************************************************************************)

\* the specimens of window w whose checkbox is checked
Checked(w) == {k \in 1..Len(cg_windows[w].vars) : cg_windows[w].vars[k]}

\* specimen k of the session of window w, plotted under its checkbox label
SessionLine(w, k) ==
    [x |-> ButLast(json_loads(cg_db[cg_windows[w].leakware_id][k].x_value)),
     y |-> ButLast(json_loads(cg_db[cg_windows[w].leakware_id][k].y_value)),
     label |-> cg_windows[w].labels[k]]

\* C21: in every comparison window the plotted specimens are exactly the
\* specimens whose checkbox is checked (all of them when the window opens),
\* each under the label 'specimen k' of its checkbox.
C21_PlottedAreChecked ==
    \A w \in 1..Len(cg_windows) :
        {cg_windows[w].plot[j] : j \in 1..Len(cg_windows[w].plot)}
            = {SessionLine(w, k) : k \in Checked(w)}

\* what comparison_graph draws from the specimens of the session of window w
\* and the checkbox states of window w
OwnPlot(windows, w) ==
    comparison_graph(load_data_from_database(cg_db, windows[w].leakware_id).x,
                     load_data_from_database(cg_db, windows[w].leakware_id).y,
                     {k - 1 : k \in {j \in 1..Len(windows[w].vars) : windows[w].vars[j]}})

\* C22: with two comparison windows open for different sessions, a click on
\* a checkbox of the first window redraws it from the first session's
\* specimens and the first window's checkbox states, and opening the second
\* window leaves the plot of the first as it was.
C22_WindowsAreIndependent ==
    [][/\ (/\ Len(cg_windows) = 2
           /\ cg_windows[1].leakware_id # cg_windows[2].leakware_id
           /\ Len(cg_windows') = 2
           /\ cg_windows'[1].vars # cg_windows[1].vars)
            => cg_windows'[1].plot = OwnPlot(cg_windows', 1)
       /\ (Len(cg_windows) = 1 /\ Len(cg_windows') = 2)
            => cg_windows'[1].plot = cg_windows[1].plot]_vars

====
